---- MODULE Spec2Model ----
(***************************************************************************)
(* A model of herringlib's process-execution core: the abstract shell      *)
(* (ashell.py), the local runner (local_shell.py), the remote runner       *)
(* (remote_shell.py) and the watchdog timer (watchdog.py), and of the file *)
(* helpers backup.py, template.py and split_all.py.                        *)
(*                                                                         *)
(* The module holds several specifications over one set of variables:      *)
(*   SpecArgs     argument expansion and routing of run/system/script      *)
(*   SpecWatchdog the Watchdog object and the timer thread                 *)
(*   SpecProc     LocalShell.run over run_generator/run_process            *)
(*   SpecProcFair SpecProc with the scheduling fairness of the poll loop   *)
(*   SpecEngine   the local and the remote pattern-response engine         *)
(*   SpecSession  the shells as context managers and logout()              *)
(*   SpecTransfer RemoteShell.put and RemoteShell.get                      *)
(*   SpecEnv      the environment of the child of LocalShell.run           *)
(*   SpecBackup   next_backup_filename                                     *)
(*   SpecTemplate Template._create_from_template on one destination        *)
(*   SpecSplit    split_all and os.path.join                               *)
(* The variables a specification does not use keep their initial values.   *)
(***************************************************************************)
EXTENDS Integers, Sequences, FiniteSets, TLC

\* ------------------------------------------------------------------ bounds
\* longest argument list a caller passes as cmd_args, prefix or postfix
MaxArgLen == 1

\* the clock stops at MaxTime
MaxTime == 3

\* longest watchdog timeout tried, in clock ticks
MaxTimeout == 2

\* most Timer objects created in one behaviour
MaxTimers == 3

\* most write() calls the child makes on its output pipe
MaxWrites == 2

\* the clock of one run stops at MaxRunTime
MaxRunTime == 2

\* longest timeout passed to run, in clock ticks
MaxRunTimeout == 1

\* most pieces of output the child or the session emits during one call
MaxEmit == 2

\* most expect() timeouts during one call
MaxTimeouts == 1

\* how many explicit logout() calls are made on one shell
MaxLogouts == 3

\* ------------------------------------------------------- python values
\* A python variable holding None or a list of strings.
None == [none |-> TRUE, v |-> <<>>]

Some(l) == [none |-> FALSE, v |-> l]

\* python truthiness of an optional list: None and [] are both false
Truthy(x) == ~x.none /\ x.v # <<>>

\* the strings the argument lists are made of
Tok == {"a", "b"}

SeqsUpTo(S, n) == UNION {[1..k -> S] : k \in 0..n}

ArgLists == SeqsUpTo(Tok, MaxArgLen)

\* a command has at least its program name
CmdLists == ArgLists \ {<<>>}

OptArgLists == {None} \cup {Some(l) : l \in ArgLists}

\* ' '.join(list): the items with a separator between neighbours
RECURSIVE Join(_, _)
Join(sep, l) ==
    IF l = <<>> THEN <<>>
    ELSE IF Len(l) = 1 THEN l
    ELSE <<Head(l), sep>> \o Join(sep, Tail(l))

\* ------------------------------------------------------------ variables
VARIABLES
    \* --- the shell instance and the caller's objects (SpecArgs)
    kind,       \* "local" or "remote": the concrete class of the shell
    heap,       \* the list objects: the instance's and the caller's
    ctor,       \* the instance's prefix/postfix right after construction
    argsIn,     \* the caller's lists as they were when the call was made
    lastOp,     \* the call whose outcome the caller holds, "init" when none
    ret,        \* what the last operation returned / handed to the process
    route       \* which path the last run took: "engine", "plain", "none"

argVars == <<kind, heap, ctor, argsIn, lastOp, ret, route>>

VARIABLES
    \* --- the watchdog and the timer thread (SpecWatchdog, SpecProc)
    wd,           \* the Watchdog object: its timeout and its timer handle
    timers,       \* every threading.Timer object created so far
    now,          \* the clock, in ticks
    handlerCalls, \* how often the watchdog's handler has been invoked
    wdTouched,    \* start(), stop() or reset() was called after construction
    wdUse         \* how the caller has used the Watchdog: the last event,
                  \* when the handle's timer was made, whether only reset()
                  \* was called, whether a deadline was let pass

wdVars == <<wd, timers, now, handlerCalls, wdTouched, wdUse>>

VARIABLES
    \* --- one LocalShell.run on the plain path (SpecProc)
    pc,          \* where run_process stands
    procArgs,    \* the argument list handed to subprocess.Popen
    runTimeout,  \* the timeout argument of the call
    child,       \* the child process: alive, killed, its unread output
    written,     \* every byte the child has written, in order
    interrupted, \* handler.interrupted of the GracefulInterruptHandler
    lines,       \* the chunks run has collected from the generator
    result,      \* the string run returned
    raised,      \* an exception reached the caller of run
    errorLog,    \* the argument lists reported through error()
    spawn        \* how Popen ended: "none" (not called), "ok" or "OSError"

procVars == <<pc, procArgs, runTimeout, child, written, interrupted, lines, result,
              raised, errorLog, spawn>>

VARIABLES
    \* --- one run_pattern_response call (SpecEngine)
    engine,     \* "local" (pexpect.spawn) or "remote" (the pxssh session)
    epc,        \* "idle", "await" (in the expect loop) or "done"
    prArg,      \* the caller's pattern_response object
    table,      \* the engine's pattern -> response table, in order
    patterns,   \* the list handed to expect()
    sess,       \* the child / session: alive, pieces emitted, timeouts had
    pending,    \* output emitted that expect() has not read yet
    buffer,     \* pexpect's buffer: output read and not matched yet
    output,     \* the fragments accumulated in `output`
    sent,       \* the lines sent to the child / session
    lastMatch,  \* the last return of expect(): what matched and where
    engResult,  \* what run_pattern_response returned
    engRaised,  \* an exception left run_pattern_response
    engArgs,    \* the call: the mapping as passed, accept_defaults, whether
                \* a password is configured, and the interpreter (py3)
    matched     \* the before and after text of every return of expect()

engVars == <<engine, epc, prArg, table, patterns, sess, pending, buffer, output,
             sent, lastMatch, engResult, engRaised, engArgs, matched>>

VARIABLES
    \* --- the shells used as context managers and logged out (SpecSession)
    shells      \* per shell object: the ssh handle, the pxssh session, how
                \* often it was closed, the with-block, the logout() calls

sessVars == <<shells>>

VARIABLES
    \* --- the file transfers, the child's environment and the file helpers
    xfer,       \* one RemoteShell.put or RemoteShell.get call (SpecTransfer)
    penv,       \* os.environ, the env argument of a LocalShell.run call and
                \* the environment the child was spawned with (SpecEnv)
    bk,         \* one next_backup_filename call: arguments and result
                \* (SpecBackup)
    tdir,       \* the destination directory of Template._create_from_template
                \* and what the renders have done to it (SpecTemplate)
    sp          \* one split_all call and the os.path.join of its result
                \* (SpecSplit)

utilVars == <<xfer, penv, bk, tdir, sp>>

\* the variables of the shells, the watchdog and the engines
coreVars == <<argVars, wdVars, procVars, engVars, sessVars>>

vars == <<argVars, wdVars, procVars, engVars, sessVars, utilVars>>

\* names of the list objects that a call can reach
ObjNames == {"self.prefix", "self.postfix", "cmd_args", "prefix", "postfix"}

\* -------------------------------------------------------------- AShell
\* AShell.expand_args: truthiness decides, so an explicit [] counts as omitted
ExpandArgs(h, cmd_args, prefix, postfix) ==
    LET args0 == cmd_args.v
        args1 == IF Truthy(prefix) THEN prefix.v \o args0
                 ELSE IF Truthy(h["self.prefix"]) THEN h["self.prefix"].v \o args0
                 ELSE args0
        args2 == IF Truthy(postfix) THEN args1 \o postfix.v
                 ELSE IF Truthy(h["self.postfix"]) THEN args1 \o h["self.postfix"].v
                 ELSE args1
    IN  args2

\* an optional pattern_response mapping: None or an ordered list of entries
NoTable == [none |-> TRUE, v |-> <<>>]

SomeTable(t) == [none |-> FALSE, v |-> t]

\* python truthiness of a mapping: None and {} are both false
TruthyTable(pr) == ~pr.none /\ pr.v # <<>>

\* the mappings a caller of run passes when only the routing matters
RouteTables ==
    {NoTable, SomeTable(<<>>), SomeTable(<<[key |-> "custom", resp |-> "yes"]>>)}

\* env.items() formatted as "%s=%s": no entry, or the one entry K=V
EnvArgLists == {<<>>, <<"K=V">>}

\* the caller's objects of one call, put on the heap next to the instance's
WithCall(h, cmd_args, prefix, postfix) ==
    [h EXCEPT !["cmd_args"] = cmd_args, !["prefix"] = prefix, !["postfix"] = postfix]

\* LocalShell.run, lines 188-195: `if pattern_response:` / `if accept_defaults:`
LocalRoute(pattern_response, accept_defaults) ==
    IF TruthyTable(pattern_response) THEN "engine"
    ELSE IF accept_defaults THEN "engine"
    ELSE "plain"

\* RemoteShell.run, line 229
RemoteRoute(pattern_response, accept_defaults, self_accept_defaults) ==
    IF TruthyTable(pattern_response) \/ accept_defaults \/ self_accept_defaults
    THEN "engine" ELSE "plain"

\* RemoteShell.run, line 219/220: `x = x or self.x` binds a name to one of two
\* existing objects; the result is the name of the object, not a copy
OrSelf(h, name) == IF Truthy(h[name]) THEN name ELSE "self." \o name

\* a plausible slip: `prefix += env_args`, which extends the bound object
AddEnvArgsInPlace(h, ref, env_args) ==
    IF env_args # <<>>
    THEN IF h[ref].none
         THEN [heap |-> h, val |-> Some(env_args)]
         ELSE [heap |-> [h EXCEPT ![ref] = Some(@.v \o env_args)],
               val |-> Some(h[ref].v \o env_args)]
    ELSE [heap |-> h, val |-> h[ref]]

\* RemoteShell.run, lines 222-227: `prefix = prefix + env_args` builds a new list
AddEnvArgs(h, ref, env_args) ==
    IF env_args # <<>>
    THEN IF h[ref].none
         THEN [heap |-> h, val |-> Some(env_args)]
         ELSE [heap |-> h, val |-> Some(h[ref].v \o env_args)]
    ELSE [heap |-> h, val |-> h[ref]]

\* the arguments of a call, as the caller passed them
CallArgs(cmd_args, prefix, postfix, pattern_response, accept_defaults) ==
    [cmd_args |-> cmd_args, prefix |-> prefix, postfix |-> postfix,
     pattern_response |-> pattern_response, accept_defaults |-> accept_defaults]

\* the values the shell variables keep where no shell call is made
ArgsIdle ==
    /\ kind = "local"
    /\ heap = [n \in ObjNames |-> None]
    /\ ctor = [prefix |-> None, postfix |-> None]
    /\ argsIn = CallArgs(None, None, None, NoTable, FALSE)
    /\ lastOp = "init"
    /\ ret = <<>>
    /\ route = "none"

\* a response of the table: None or a string
RNone == [none |-> TRUE, s |-> ""]

RStr(x) == [none |-> FALSE, s |-> x]

\* python truthiness of a response: None and '' are both false
RTruthy(r) == ~r.none /\ r.s # ""

NoMatch == [n |-> 0, what |-> "none", index |-> 0, key |-> "", resp |-> RNone,
            start |-> 0, len |-> 0]

\* the shell objects of the session model: a RemoteShell and a LocalShell
ShellIds == {"remote", "local"}

\* a shell right after construction: a RemoteShell holds the pxssh session
\* it logged in, a LocalShell has none
NewShell(id) ==
    [ssh |-> IF id = "remote" THEN "session" ELSE "None",
     open |-> id = "remote",
     closes |-> 0,
     ctx |-> "out",
     calls |-> 0,
     raised |-> FALSE]

\* the values the session variables keep where no logout is looked at
SessionIdle == shells = [id \in ShellIds |-> NewShell(id)]

\* ---------------------------------------------- transfers and file helpers
\* a Python dict as a function from its keys; the dict without entries
EmptyDict == [k \in {} |-> None]

\* no put or get under way
XferIdle ==
    xfer = [op |-> "none", pc |-> "idle", remote |-> {}, firstFails |-> FALSE,
            secondFails |-> FALSE, attempts |-> <<>>, names |-> <<>>, idx |-> 0,
            out |-> <<>>, raised |-> FALSE]

\* no run call looked at for its environment
EnvIdle ==
    penv = [pc |-> "idle", environ |-> EmptyDict, before |-> EmptyDict,
            env |-> None, path |-> "none", childEnv |-> EmptyDict]

\* no next_backup_filename call
BackupIdle == bk = [pc |-> "idle", name |-> <<>>, files |-> {}, result |-> <<>>]

\* no template rendered
TemplateIdle ==
    tdir = [dest |-> <<>>, files |-> EmptyDict, start |-> EmptyDict,
            renders |-> 0, changes |-> 0, written |-> "None"]

\* no split_all call
SplitIdle ==
    sp = [pc |-> "idle", path |-> <<>>, parts |-> <<>>, joined |-> <<>>,
          raised |-> FALSE]

\* the values these variables keep in the specifications of the shells
UtilIdle == XferIdle /\ EnvIdle /\ BackupIdle /\ TemplateIdle /\ SplitIdle

\* engArgs where no call is under way
NoCall == [pr |-> NoTable, accept_defaults |-> FALSE, hasPassword |-> FALSE, py3 |-> FALSE]

\* the values the engine variables keep where no engine runs
EngineIdle ==
    /\ engine = "local"
    /\ epc = "idle"
    /\ prArg = NoTable
    /\ table = <<>>
    /\ patterns = <<>>
    /\ sess = [alive |-> FALSE, emitted |-> 0, timeouts |-> 0]
    /\ pending = <<>>
    /\ buffer = <<>>
    /\ output = <<>>
    /\ sent = <<>>
    /\ lastMatch = NoMatch
    /\ engResult = <<>>
    /\ engRaised = FALSE
    /\ engArgs = NoCall
    /\ matched = <<>>

\* the values the run variables keep where no process is run
ProcIdle ==
    /\ pc = "idle"
    /\ procArgs = <<>>
    /\ runTimeout = 0
    /\ child = [alive |-> FALSE, killed |-> FALSE, pipe |-> <<>>, writes |-> 0]
    /\ written = <<>>
    /\ interrupted = FALSE
    /\ lines = <<>>
    /\ result = <<>>
    /\ raised = FALSE
    /\ errorLog = <<>>
    /\ spawn = "none"

\* ------------------------------------------------------------ Watchdog
\* Timer(interval, function): a thread object, not running until started
NewTimer(interval) == [interval |-> interval, state |-> "initial", due |-> 0]

\* a plausible slip: start() without the `if self.timeout > 0` test
WatchdogStartUnguarded(w, tms) ==
    [wd |-> [w EXCEPT !.timer = Len(tms) + 1],
     timers |-> Append(tms, NewTimer(w.timeout))]

\* Watchdog.start: creates the Timer when timeout > 0 and keeps it in
\* self.timer; the Timer's own start() is not called
WatchdogStart(w, tms) ==
    IF w.timeout > 0
    THEN [wd |-> [w EXCEPT !.timer = Len(tms) + 1],
          timers |-> Append(tms, NewTimer(w.timeout))]
    ELSE [wd |-> w, timers |-> tms]

\* a plausible slip: stop() cancels the Timer and keeps the handle
WatchdogStopKeepsHandle(w, tms) ==
    IF w.timer # 0
    THEN [wd |-> w, timers |-> [tms EXCEPT ![w.timer].state = "cancelled"]]
    ELSE [wd |-> w, timers |-> tms]

\* Watchdog.stop: cancels the Timer the handle names and clears the handle
WatchdogStop(w, tms) ==
    IF w.timer # 0
    THEN [wd |-> [w EXCEPT !.timer = 0],
          timers |-> [tms EXCEPT ![w.timer].state = "cancelled"]]
    ELSE [wd |-> w, timers |-> tms]

\* a plausible slip: reset() that starts anew without stopping first
WatchdogResetNoStop(w, tms) == WatchdogStart(w, tms)

\* Watchdog.reset: stop() then start()
WatchdogReset(w, tms) ==
    LET s == WatchdogStop(w, tms) IN WatchdogStart(s.wd, s.timers)

\* Watchdog.__init__(timeout): stores the fields and calls start()
WatchdogNew(timeout, tms) ==
    WatchdogStart([timeout |-> timeout, timer |-> 0], tms)

\* the timer threads at clock value t: a Timer that was started and is due
\* runs its function once; a Timer in any other state does nothing
DueTimers(tms, t) ==
    {i \in 1..Len(tms) : tms[i].state = "started" /\ tms[i].due <= t}

RunDueTimers(tms, t) ==
    [i \in 1..Len(tms) |->
        IF i \in DueTimers(tms, t) THEN [tms[i] EXCEPT !.state = "fired"] ELSE tms[i]]

\* the use of a Watchdog right after its construction at clock value 0
NewUse == [op |-> "new", armedAt |-> 0, onlyReset |-> TRUE, late |-> FALSE]

\* the values the watchdog variables keep where no watchdog exists
WatchdogIdle ==
    /\ wd = [timeout |-> 0, timer |-> 0]
    /\ timers = <<>>
    /\ now = 0
    /\ handlerCalls = 0
    /\ wdTouched = FALSE
    /\ wdUse = NewUse

\* ------------------------------------------------ SpecWatchdog: actions
\* a Watchdog(t, handler) constructed at clock value 0
InitWatchdog ==
    /\ \E t \in 0..MaxTimeout :
          LET n == WatchdogNew(t, <<>>) IN wd = n.wd /\ timers = n.timers
    /\ now = 0
    /\ handlerCalls = 0
    /\ wdTouched = FALSE
    /\ wdUse = NewUse
    /\ ArgsIdle
    /\ ProcIdle
    /\ EngineIdle
    /\ SessionIdle
    /\ UtilIdle

\* the caller calls start()
WdStart ==
    /\ Len(timers) < MaxTimers
    /\ LET n == WatchdogStart(wd, timers) IN wd' = n.wd /\ timers' = n.timers
    /\ wdTouched' = TRUE
    /\ wdUse' = [wdUse EXCEPT !.op = "start", !.armedAt = now, !.onlyReset = FALSE]
    /\ UNCHANGED <<now, handlerCalls, argVars, procVars, engVars, sessVars, utilVars>>

\* the caller calls stop()
WdStop ==
    /\ LET n == WatchdogStop(wd, timers) IN wd' = n.wd /\ timers' = n.timers
    /\ wdTouched' = TRUE
    /\ wdUse' = [wdUse EXCEPT !.op = "stop", !.onlyReset = FALSE]
    /\ UNCHANGED <<now, handlerCalls, argVars, procVars, engVars, sessVars, utilVars>>

\* the caller calls reset()
WdReset ==
    /\ Len(timers) < MaxTimers
    /\ LET n == WatchdogReset(wd, timers) IN wd' = n.wd /\ timers' = n.timers
    /\ wdTouched' = TRUE
    /\ wdUse' = [wdUse EXCEPT !.op = "reset", !.armedAt = now]
    /\ UNCHANGED <<now, handlerCalls, argVars, procVars, engVars, sessVars, utilVars>>

\* one tick of the clock; the timers that become due run the handler
WdTick ==
    /\ now < MaxTime
    /\ now' = now + 1
    /\ timers' = RunDueTimers(timers, now + 1)
    /\ handlerCalls' = handlerCalls + Cardinality(DueTimers(timers, now + 1))
    /\ wdUse' = [wdUse EXCEPT !.op = "tick",
                              !.late = @ \/ (wd.timer # 0 /\ now + 1 >= wdUse.armedAt + wd.timeout)]
    /\ UNCHANGED <<wd, wdTouched, argVars, procVars, engVars, sessVars, utilVars>>

\* --------------------------------------------------- the child's output
\* the bytes a child writes: an ASCII letter, and the two bytes of the UTF-8
\* encoding of one non-ASCII letter
Bytes == {"a", "0xC3", "0xA9"}

\* bytes.decode(): the text of a well-formed byte string; a lead byte without
\* its continuation byte, or a continuation byte alone, raises
RECURSIVE Decode(_)
Decode(bs) ==
    IF bs = <<>> THEN [ok |-> TRUE, text |-> <<>>]
    ELSE IF Head(bs) = "a"
    THEN LET r == Decode(Tail(bs)) IN [ok |-> r.ok, text |-> <<"a">> \o r.text]
    ELSE IF Head(bs) = "0xC3" /\ Len(bs) >= 2 /\ bs[2] = "0xA9"
    THEN LET r == Decode(Tail(Tail(bs))) IN [ok |-> r.ok, text |-> <<"e'">> \o r.text]
    ELSE [ok |-> FALSE, text |-> <<>>]

\* LocalShell._non_block_read: output.read().decode(), and '' on any exception
\* (read() gives None when nothing is available, and None has no decode)
NonBlockRead(pipe) ==
    IF pipe = <<>> THEN <<>>
    ELSE IF Decode(pipe).ok THEN Decode(pipe).text
    ELSE <<>>

\* ''.join(lines)
RECURSIVE Concat(_)
Concat(ls) == IF ls = <<>> THEN <<>> ELSE Head(ls) \o Concat(Tail(ls))

\* the argument lists run_process is given
ProcCmds == {<<"a">>, <<"a", "b">>}

\* a plausible slip: no except clause, the OSError reaches the caller
SpawnFailedRaises(cmd_args, log) == [raised |-> TRUE, errorLog |-> log]

\* run_process, lines 288-289: `except OSError as ex: error(...)` reports the
\* arguments and lets the generator end
SpawnFailed(cmd_args, log) == [raised |-> FALSE, errorLog |-> Append(log, cmd_args)]

\* a plausible slip: the flag is read but the child is left running
CheckInterruptedNoKill(c, flag) == c

\* run_process, lines 273-274: `if handler.interrupted: process.kill()`
CheckInterrupted(c, flag) == IF flag THEN [c EXCEPT !.killed = TRUE] ELSE c

\* the loop of run_process is running: the guard is installed, fido exists
InLoop == pc \in {"poll", "check", "read", "sleep"}

\* ------------------------------------------------------ SpecProc: state
InitProc ==
    /\ ProcIdle
    /\ ArgsIdle
    /\ WatchdogIdle
    /\ EngineIdle
    /\ SessionIdle
    /\ UtilIdle

\* ---------------------------------------------------- SpecProc: actions
\* LocalShell.run(cmd_args, timeout=t) on the plain path up to the loop:
\* run_generator, run_process, Popen and Watchdog(timeout).  Popen either
\* starts the child or raises OSError.
RunStart ==
    /\ pc = "idle"
    /\ \E cmd \in ProcCmds, t \in 0..MaxRunTimeout, spawned \in BOOLEAN :
          /\ procArgs' = cmd
          /\ runTimeout' = t
          /\ spawn' = IF spawned THEN "ok" ELSE "OSError"
          /\ IF spawned
             THEN /\ child' = [alive |-> TRUE, killed |-> FALSE, pipe |-> <<>>, writes |-> 0]
                  /\ LET n == WatchdogNew(t, timers) IN wd' = n.wd /\ timers' = n.timers
                  /\ pc' = "poll"
                  /\ UNCHANGED <<raised, errorLog, result>>
             ELSE /\ LET f == SpawnFailed(cmd, errorLog) IN
                        raised' = f.raised /\ errorLog' = f.errorLog
                  /\ result' = Concat(lines)
                  /\ pc' = "done"
                  /\ UNCHANGED <<child, wd, timers>>
    /\ UNCHANGED <<written, interrupted, lines, now, handlerCalls,
                   wdTouched, wdUse, argVars, engVars, sessVars, utilVars>>

\* `while process.poll() is None`
Poll ==
    /\ pc = "poll"
    /\ pc' = IF child.alive THEN "check" ELSE "stop"
    /\ UNCHANGED <<procArgs, runTimeout, child, written, interrupted, lines, result,
                   raised, errorLog, spawn, wdVars, argVars, engVars, sessVars, utilVars>>

\* `if handler.interrupted: process.kill()`
Check ==
    /\ pc = "check"
    /\ child' = CheckInterrupted(child, interrupted)
    /\ pc' = "read"
    /\ UNCHANGED <<procArgs, runTimeout, written, interrupted, lines, result,
                   raised, errorLog, spawn, wdVars, argVars, engVars, sessVars, utilVars>>

\* one turn of the inner loop: read what is available; an empty line ends the
\* inner loop, any other line is yielded and collected by run
Read ==
    /\ pc = "read"
    /\ LET line == NonBlockRead(child.pipe) IN
          /\ child' = [child EXCEPT !.pipe = <<>>]
          /\ IF line = <<>>
             THEN pc' = "sleep" /\ lines' = lines
             ELSE pc' = "read" /\ lines' = Append(lines, line)
    /\ UNCHANGED <<procArgs, runTimeout, written, interrupted, result,
                   raised, errorLog, spawn, wdVars, argVars, engVars, sessVars, utilVars>>

\* `sleep(timeout_interval)`
Sleep ==
    /\ pc = "sleep"
    /\ pc' = "poll"
    /\ UNCHANGED <<procArgs, runTimeout, child, written, interrupted, lines, result,
                   raised, errorLog, spawn, wdVars, argVars, engVars, sessVars, utilVars>>

\* `fido.stop()` after the loop.  The `except Watchdog` clause before it is
\* never entered: nothing in the loop raises a Watchdog in this thread (the
\* handler of a timer runs in the timer's thread).
Stop ==
    /\ pc = "stop"
    /\ LET n == WatchdogStop(wd, timers) IN wd' = n.wd /\ timers' = n.timers
    /\ pc' = "drain"
    /\ UNCHANGED <<procArgs, runTimeout, child, written, interrupted, lines, result,
                   raised, errorLog, spawn, now, handlerCalls, wdTouched, wdUse,
                   argVars, engVars, sessVars, utilVars>>

\* the final read after the child has exited, and run's `return ''.join(lines)`
Drain ==
    /\ pc = "drain"
    /\ LET line == NonBlockRead(child.pipe)
           ls == IF line = <<>> THEN lines ELSE Append(lines, line)
       IN  /\ child' = [child EXCEPT !.pipe = <<>>]
           /\ lines' = ls
           /\ result' = Concat(ls)
    /\ pc' = "done"
    /\ UNCHANGED <<procArgs, runTimeout, written, interrupted,
                   raised, errorLog, spawn, wdVars, argVars, engVars, sessVars, utilVars>>

\* the child writes to its stdout/stderr pipe
ChildWrite ==
    /\ child.alive /\ ~child.killed
    /\ child.writes < MaxWrites
    /\ \E b \in Bytes :
          /\ child' = [child EXCEPT !.pipe = Append(@, b), !.writes = @ + 1]
          /\ written' = Append(written, b)
    /\ UNCHANGED <<pc, procArgs, runTimeout, interrupted, lines, result,
                   raised, errorLog, spawn, wdVars, argVars, engVars, sessVars, utilVars>>

\* the child exits, of its own or because it was killed
ChildExit ==
    /\ child.alive
    /\ child' = [child EXCEPT !.alive = FALSE]
    /\ UNCHANGED <<pc, procArgs, runTimeout, written, interrupted, lines, result,
                   raised, errorLog, spawn, wdVars, argVars, engVars, sessVars, utilVars>>

\* the interrupt signal arrives while the guard is installed: the guard's
\* handler sets the flag and does nothing else
Interrupt ==
    /\ pc \in {"poll", "check", "read", "sleep", "stop", "drain"}
    /\ ~interrupted
    /\ interrupted' = TRUE
    /\ UNCHANGED <<pc, procArgs, runTimeout, child, written, lines, result,
                   raised, errorLog, spawn, wdVars, argVars, engVars, sessVars, utilVars>>

\* one tick of the clock during a run with a timeout; due timers run
ProcTick ==
    /\ InLoop
    /\ runTimeout > 0
    /\ now < MaxRunTime
    /\ now' = now + 1
    /\ timers' = RunDueTimers(timers, now + 1)
    /\ handlerCalls' = handlerCalls + Cardinality(DueTimers(timers, now + 1))
    /\ UNCHANGED <<pc, procArgs, runTimeout, child, written, interrupted, lines,
                   result, raised, errorLog, spawn, wd, wdTouched, wdUse, argVars,
                   engVars, sessVars, utilVars>>

\* the steps of the thread that runs run_process
LoopStep == Poll \/ Check \/ Read \/ Sleep \/ Stop \/ Drain

\* the operating system ends a child that was sent SIGKILL
KilledChildExit == child.killed /\ ChildExit

NextProc ==
    \/ RunStart
    \/ Poll
    \/ Check
    \/ Read
    \/ Sleep
    \/ Stop
    \/ Drain
    \/ ChildWrite
    \/ ChildExit
    \/ Interrupt
    \/ ProcTick

SpecProc == InitProc /\ [][NextProc]_vars

\* the calling thread keeps running, and a killed child does end
SpecProcFair ==
    InitProc /\ [][NextProc]_vars /\ WF_vars(LoopStep) /\ WF_vars(KilledChildExit)

\* ----------------------------------------------------- SpecArgs: state
\* prefix/postfix of a shell after construction.  A LocalShell takes them from
\* its arguments or from Project.prefix[environment] (None or a list); a
\* RemoteShell always builds lists, with `cd dir ; ` / `source .. ; ` in front.
LocalConfigs ==
    {<<None, None>>, <<Some(<<>>), Some(<<>>)>>, <<Some(<<"sp">>), None>>,
     <<Some(<<"sp">>), Some(<<"sq">>)>>}

RemoteConfigs ==
    {<<Some(<<>>), Some(<<>>)>>, <<Some(<<"cd d ; ">>), Some(<<>>)>>,
     <<Some(<<"cd d ; ", "sp">>), Some(<<"sq">>)>>}

InitArgs ==
    /\ kind \in {"local", "remote"}
    /\ \E c \in (IF kind = "local" THEN LocalConfigs ELSE RemoteConfigs) :
          /\ heap = [n \in ObjNames |->
                        IF n = "self.prefix" THEN c[1]
                        ELSE IF n = "self.postfix" THEN c[2] ELSE None]
          /\ ctor = [prefix |-> c[1], postfix |-> c[2]]
    /\ argsIn = CallArgs(None, None, None, NoTable, FALSE)
    /\ lastOp = "init"
    /\ ret = <<>>
    /\ route = "none"
    /\ WatchdogIdle
    /\ ProcIdle
    /\ EngineIdle
    /\ SessionIdle
    /\ UtilIdle

\* --------------------------------------------------- SpecArgs: actions
\* a direct call of expand_args(cmd_args, prefix, postfix)
ExpandArgsCall ==
    /\ lastOp = "init"
    /\ \E L \in CmdLists, P \in OptArgLists, Q \in OptArgLists :
        LET h == WithCall(heap, Some(L), P, Q) IN
        /\ heap' = h
        /\ argsIn' = CallArgs(Some(L), P, Q, NoTable, FALSE)
        /\ ret' = ExpandArgs(h, h["cmd_args"], h["prefix"], h["postfix"])
        /\ lastOp' = "expand_args"
        /\ route' = "none"
        /\ UNCHANGED <<kind, ctor, wdVars, procVars, engVars, sessVars, utilVars>>

\* LocalShell.run_pattern_response called directly: the command line it spawns
RunPatternResponseCall ==
    /\ lastOp = "init"
    /\ kind = "local"
    /\ \E L \in CmdLists, P \in OptArgLists, Q \in OptArgLists :
        LET h == WithCall(heap, Some(L), P, Q) IN
        /\ heap' = h
        /\ argsIn' = CallArgs(Some(L), P, Q, NoTable, FALSE)
        /\ ret' = Join(" ", ExpandArgs(h, h["cmd_args"], h["prefix"], h["postfix"]))
        /\ lastOp' = "run_pattern_response"
        /\ route' = "engine"
        /\ UNCHANGED <<kind, ctor, wdVars, procVars, engVars, sessVars, utilVars>>

\* LocalShell.run: the route it takes and the arguments the child gets
LocalRunCall ==
    /\ lastOp = "init"
    /\ kind = "local"
    /\ \E L \in CmdLists, P \in OptArgLists, Q \in OptArgLists,
          pr \in RouteTables, accept_defaults \in BOOLEAN :
        LET h == WithCall(heap, Some(L), P, Q)
            args == ExpandArgs(h, h["cmd_args"], h["prefix"], h["postfix"])
            r == LocalRoute(pr, accept_defaults)
        IN
        /\ heap' = h
        /\ argsIn' = CallArgs(Some(L), P, Q, pr, accept_defaults)
        /\ route' = r
        /\ ret' = IF r = "engine" THEN Join(" ", args) ELSE args
        /\ lastOp' = "run"
        /\ UNCHANGED <<kind, ctor, wdVars, procVars, engVars, sessVars, utilVars>>

\* RemoteShell.run: the command line it sends to the session
RemoteRunCall ==
    /\ lastOp = "init"
    /\ kind = "remote"
    /\ \E L \in CmdLists, P \in OptArgLists, Q \in OptArgLists,
          env_args \in EnvArgLists, pr \in RouteTables, accept_defaults \in BOOLEAN :
        LET h0 == WithCall(heap, Some(L), P, Q)
            e == AddEnvArgs(h0, OrSelf(h0, "prefix"), env_args)
            h == e.heap
            postfix == h[OrSelf(h, "postfix")]
            args == ExpandArgs(h, h["cmd_args"], e.val, postfix)
        IN
        /\ heap' = h
        /\ argsIn' = CallArgs(Some(L), P, Q, pr, accept_defaults)
        /\ route' = RemoteRoute(pr, accept_defaults, FALSE)
        /\ ret' = Join(" ", args)
        /\ lastOp' = "run"
        /\ UNCHANGED <<kind, ctor, wdVars, procVars, engVars, sessVars, utilVars>>

\* AShell.system(cmd_line, prefix, postfix): the line handed to _system
SystemCall ==
    /\ lastOp = "init"
    /\ \E cmd_line \in Tok, P \in OptArgLists, Q \in OptArgLists :
        LET h == WithCall(heap, None, P, Q) IN
        /\ heap' = h
        /\ argsIn' = CallArgs(None, P, Q, NoTable, FALSE)
        /\ ret' = Join(" ", ExpandArgs(h, Some(<<cmd_line>>), h["prefix"], h["postfix"]))
        /\ lastOp' = "system"
        /\ route' = "none"
        /\ UNCHANGED <<kind, ctor, wdVars, procVars, engVars, sessVars, utilVars>>

\* AShell.script(cmdline, env): run(['script', '-q', '-e', '-f', '-c', cmdline])
ScriptCall ==
    /\ lastOp = "init"
    /\ \E cmdline \in Tok, env_args \in EnvArgLists :
        LET L == <<"script", "-q", "-e", "-f", "-c", cmdline>>
            h0 == WithCall(heap, Some(L), None, None)
            e == IF kind = "remote"
                 THEN AddEnvArgs(h0, OrSelf(h0, "prefix"), env_args)
                 ELSE [heap |-> h0, val |-> None]
            h == e.heap
            postfix == IF kind = "remote" THEN h[OrSelf(h, "postfix")] ELSE None
            args == ExpandArgs(h, h["cmd_args"], e.val, postfix)
        IN
        /\ heap' = h
        /\ argsIn' = CallArgs(Some(L), None, None, NoTable, FALSE)
        /\ route' = "plain"
        /\ ret' = IF kind = "remote" THEN Join(" ", args) ELSE args
        /\ lastOp' = "script"
        /\ UNCHANGED <<kind, ctor, wdVars, procVars, engVars, sessVars, utilVars>>

\* the caller is done with the outcome of a call and lets go of the lists it
\* passed; the shell instance stays as the call left it
CallReturn ==
    /\ lastOp # "init"
    /\ heap' = WithCall(heap, None, None, None)
    /\ argsIn' = CallArgs(None, None, None, NoTable, FALSE)
    /\ lastOp' = "init"
    /\ ret' = <<>>
    /\ route' = "none"
    /\ UNCHANGED <<kind, ctor, wdVars, procVars, engVars, sessVars, utilVars>>

NextArgs ==
    \/ CallReturn
    \/ ExpandArgsCall
    \/ RunPatternResponseCall
    \/ LocalRunCall
    \/ RemoteRunCall
    \/ SystemCall
    \/ ScriptCall

SpecArgs == InitArgs /\ [][NextArgs]_vars

\* ------------------------------------------------------ SpecArgs: claims
\* what the contract of expand_args gives for the last call: an argument
\* that was passed (not None) is used as it is, else the instance's
ChosenAffix(explicit, own) ==
    IF ~explicit.none THEN explicit.v ELSE IF ~own.none THEN own.v ELSE <<>>

\* C1: expand_args(L, prefix=P, postfix=Q) returns P + L + Q for every P, Q
\* that is passed, an empty list included; the instance's prefix/postfix are
\* used only for an argument that is omitted, and L comes back unchanged when
\* neither the call nor the instance has one.
C1_ExpandArgsPrecedence ==
    lastOp = "expand_args" =>
        ret = ChosenAffix(argsIn.prefix, heap["self.prefix"])
              \o argsIn.cmd_args.v
              \o ChosenAffix(argsIn.postfix, heap["self.postfix"])

\* C2: after any sequence of expand_args, run, run_pattern_response, system
\* and script calls the instance's prefix and postfix are what they were
\* after construction, and the caller's cmd_args, prefix and postfix lists
\* are what the caller passed.
C2_PrefixPostfixFrame ==
    /\ heap["self.prefix"] = ctor.prefix
    /\ heap["self.postfix"] = ctor.postfix
    /\ heap["cmd_args"] = argsIn.cmd_args
    /\ heap["prefix"] = argsIn.prefix
    /\ heap["postfix"] = argsIn.postfix

\* a remote run whose env arguments were appended to the instance's prefix
C2_Witness ==
    /\ kind = "remote" /\ lastOp = "run"
    /\ ~Truthy(argsIn.prefix) /\ Truthy(ctor.prefix)
    /\ \E i \in 1..Len(ret) : ret[i] = "K=V"

\* C8: LocalShell.run takes the pattern-response engine exactly when a
\* pattern_response mapping was passed (an empty one included) or
\* accept_defaults is set.
C8_EngineWhenSupplied ==
    (kind = "local" /\ lastOp = "run") =>
        (route = "engine" <=> (~argsIn.pattern_response.none \/ argsIn.accept_defaults))

\* ------------------------------------------------- SpecWatchdog
NextWatchdog ==
    \/ WdStart
    \/ WdStop
    \/ WdReset
    \/ WdTick

SpecWatchdog == InitWatchdog /\ [][NextWatchdog]_vars

\* C3: a Watchdog constructed with timeout t > 0 whose stop() and reset()
\* are not called has invoked its handler exactly once when t has elapsed.
C3_HandlerFiresOnExpiry ==
    (wd.timeout > 0 /\ ~wdTouched /\ now >= wd.timeout) => handlerCalls = 1

\* ------------------------------------------------- the output as tokens
\* The output of a child or session, cut into the pieces the patterns tell
\* apart: the two bracket groups "[sudo]" and "[Y/n]", a blank, the words
\* "password for u:" (u the user), a line end, a word "Q" that only a
\* caller's pattern matches, and the prompt of the pxssh session.
IsBracket(t) == t \in {"[sudo]", "[Y/n]"}

\* a token all of whose characters match \S
IsNonSpace(t) == t \in {"[sudo]", "[Y/n]", "Q"}

\* a token that starts with white space
IsSpace(t) == t \in {" ", "CRLF"}

Max(S) == CHOOSE x \in S : \A y \in S : y <= x

Min(S) == CHOOSE x \in S : \A y \in S : x <= y

\* where a match of \[\S+\] that starts at i can end, without any look-behind
BracketRunEndsPlain(buf, i) ==
    IF i > Len(buf) \/ ~IsBracket(buf[i]) THEN {}
    ELSE {j \in i..Len(buf) :
            /\ \A k \in i..j : IsNonSpace(buf[k])
            /\ IsBracket(buf[j])}

\* \[\S+\](?<!\[sudo\]): a run of non-blank text from "[" to a "]" that does
\* not close the group "[sudo]"
BracketRunEnds(buf, i) ==
    {j \in BracketRunEndsPlain(buf, i) : buf[j] # "[sudo]"}

\* a plausible slip: the accept-default pattern without its look-behind
GenericLocalLenNoLookbehind(buf, i) ==
    LET ends == {j \in BracketRunEndsPlain(buf, i) : j < Len(buf) /\ buf[j + 1] = " "}
    IN  IF ends = {} THEN 0 ELSE Max(ends) - i + 2

\* local_shell.py line 100: r'\[\S+\](?<!\[sudo\]) '; the length of its match
\* at i, 0 when it does not match there
GenericLocalLen(buf, i) ==
    LET ends == {j \in BracketRunEnds(buf, i) : j < Len(buf) /\ buf[j + 1] = " "}
    IN  IF ends = {} THEN 0 ELSE Max(ends) - i + 2

\* remote_shell.py line 141: r'\[\S+\](?<!\[sudo\])(?!\S)'
GenericRemoteLen(buf, i) ==
    LET ends == {j \in BracketRunEnds(buf, i) : j = Len(buf) \/ IsSpace(buf[j + 1])}
    IN  IF ends = {} THEN 0 ELSE Max(ends) - i + 1

\* local_shell.py line 102: r'\[sudo\] password for \S+\:'
SudoLocalLen(buf, i) ==
    IF i + 2 <= Len(buf) /\ buf[i] = "[sudo]" /\ buf[i + 1] = " "
       /\ buf[i + 2] = "password for u:"
    THEN 3 ELSE 0

\* remote_shell.py line 137: 'password for {user}: '
SudoRemoteLen(buf, i) ==
    IF i + 1 <= Len(buf) /\ buf[i] = "password for u:" /\ buf[i + 1] = " "
    THEN 2 ELSE 0

\* the length of the match of one pattern at position i of buf (0: none).
\* MOVEMENT is ashell.py line 17; TIMEOUT is no regular expression and
\* matches no text.
MatchLen(pat, buf, i) ==
    IF i > Len(buf) THEN 0
    ELSE CASE pat = "GENERIC_L" -> GenericLocalLen(buf, i)
           [] pat = "GENERIC_R" -> GenericRemoteLen(buf, i)
           [] pat = "SUDO_L" -> SudoLocalLen(buf, i)
           [] pat = "SUDO_R" -> SudoRemoteLen(buf, i)
           [] pat = "MOVEMENT" -> IF buf[i] = "CRLF" THEN 1 ELSE 0
           [] pat = "CUSTOM" -> IF buf[i] = "Q" THEN 1 ELSE 0
           [] pat = "PROMPT" -> IF buf[i] = "PROMPT" THEN 1 ELSE 0
           [] OTHER -> 0

\* expect(patterns) on the buffer: of the leftmost matches of the patterns
\* the one that starts first wins, and among those that start together the
\* one that comes first in the list
Expect(pats, buf) ==
    LET hits == {<<i, k>> \in (1..Len(buf)) \X (1..Len(pats)) :
                    MatchLen(pats[k], buf, i) > 0}
    IN  IF hits = {} THEN [found |-> FALSE, index |-> 0, start |-> 0, len |-> 0]
        ELSE LET i == Min({h[1] : h \in hits})
                 k == Min({h[2] : h \in {g \in hits : g[1] = i}})
             IN  [found |-> TRUE, index |-> k, start |-> i,
                  len |-> MatchLen(pats[k], buf, i)]

\* ------------------------------------------------- the table of patterns
\* d[k] = v on an ordered mapping: a key that is there keeps its place
DictSet(t, k, v) ==
    IF \E i \in 1..Len(t) : t[i].key = k
    THEN [i \in 1..Len(t) |-> IF t[i].key = k THEN [key |-> k, resp |-> v] ELSE t[i]]
    ELSE Append(t, [key |-> k, resp |-> v])

DictGet(t, k) == (CHOOSE e \in {t[i] : i \in 1..Len(t)} : e.key = k).resp

Keys(t) == [i \in 1..Len(t) |-> t[i].key]

\* patterns.index(k)
IndexOf(pats, k) == Min({i \in 1..Len(pats) : pats[i] = k})

\* LocalShell.run_pattern_response, lines 98-105
LocalTable(pr, hasPassword) ==
    LET g == DictSet(<<>>, "GENERIC_L", RStr("<CR>"))
        t0 == IF pr.none
              THEN IF hasPassword THEN DictSet(g, "SUDO_L", RStr("<password><CR>")) ELSE g
              ELSE pr.v
        t1 == DictSet(t0, "MOVEMENT", RNone)
    IN  DictSet(t1, "TIMEOUT", RStr("<CR>"))

\* RemoteShell.run_pattern_response, lines 134-144
RemoteTable(pr, accept_defaults) ==
    LET t0 == IF TruthyTable(pr) THEN pr.v ELSE <<>>
        t1 == IF accept_defaults
              THEN DictSet(DictSet(t0, "SUDO_R", RStr("<password><CR>")),
                           "GENERIC_R", RStr("<CR>"))
              ELSE t0
        t2 == DictSet(t1, "MOVEMENT", RNone)
    IN  DictSet(t2, "TIMEOUT", RNone)

\* a plausible slip: the response is sent without the `if response:` test
DispatchAlways(resp, s) == Append(s, IF resp.none THEN "None" ELSE resp.s)

\* lines 127-128 (local) and 171-173 (remote): `if response: sendline(response)`
Dispatch(resp, s) == IF RTruthy(resp) THEN Append(s, resp.s) ELSE s

\* str(value) of what pexpect hands out as before and after: a str under
\* Python 2, bytes under Python 3, whose str() is the literal b'...'
PyStr(value, py3) == IF py3 THEN <<"b'">> \o value \o <<"'">> ELSE value

\* RemoteShell._report: before and after are accumulated when they are
\* non-empty and instances of str, which under Python 3 the bytes of the
\* pxssh session are not
Report(out, before, after, py3) ==
    LET o1 == IF before # <<>> /\ ~py3 THEN Append(out, before) ELSE out
    IN  IF after # <<>> /\ ~py3 THEN Append(o1, after) ELSE o1

\* str.splitlines() on the joined output: the lines without their line ends
RECURSIVE SplitLines(_, _)
SplitLines(toks, cur) ==
    IF toks = <<>> THEN (IF cur = <<>> THEN <<>> ELSE <<cur>>)
    ELSE IF Head(toks) = "CRLF" THEN <<cur>> \o SplitLines(Tail(toks), <<>>)
    ELSE SplitLines(Tail(toks), Append(cur, Head(toks)))

\* the pattern_response objects a caller passes to the engine
CallerTables ==
    {NoTable,
     SomeTable(<<>>),
     SomeTable(<<[key |-> "CUSTOM", resp |-> RStr("yes")]>>),
     SomeTable(<<[key |-> "CUSTOM", resp |-> RNone]>>),
     SomeTable(<<[key |-> "MOVEMENT", resp |-> RStr("yes")],
                 [key |-> "CUSTOM", resp |-> RStr("")]>>)}

\* the pieces of output a child or session emits at once
Pieces ==
    {<<"[sudo]", " ", "password for u:", " ">>, <<"[Y/n]", " ">>, <<"[Y/n]">>,
     <<"CRLF">>, <<"Q">>, <<"PROMPT">>}

\* ---------------------------------------------------- SpecEngine: state
InitEngine ==
    /\ EngineIdle
    /\ SessionIdle
    /\ UtilIdle
    /\ ArgsIdle
    /\ WatchdogIdle
    /\ ProcIdle

\* -------------------------------------------------- SpecEngine: actions
\* the engine is waiting in expect() and the buffer holds no match
NothingMatches == epc = "await" /\ ~Expect(patterns, buffer).found

\* LocalShell.run_pattern_response up to its first expect(): the table, the
\* pattern list and pexpect.spawn(command_line).  The caller's mapping is
\* the object the table is written into.  The calls enumerated are those of
\* a shell without a password with no mapping, and those of a shell with a
\* password with any mapping or none.
LocalEngineStart ==
    /\ epc = "idle"
    /\ \E pr \in CallerTables, hasPassword \in BOOLEAN, py3 \in BOOLEAN :
          LET t == LocalTable(pr, hasPassword) IN
          /\ pr.none \/ hasPassword
          /\ prArg' = IF pr.none THEN pr ELSE SomeTable(t)
          /\ table' = t
          /\ patterns' = Keys(t)
          /\ engArgs' = [pr |-> pr, accept_defaults |-> FALSE,
                         hasPassword |-> hasPassword, py3 |-> py3]
    /\ engine' = "local"
    /\ epc' = "await"
    /\ sess' = [alive |-> TRUE, emitted |-> 0, timeouts |-> 0]
    /\ UNCHANGED <<pending, buffer, output, sent, lastMatch, engResult, engRaised,
                   matched,
                   argVars, wdVars, procVars, sessVars, utilVars>>

\* lines 115-116 and 131-133: pexpect.spawn raises ExceptionPexpect (the
\* command is not found or not executable); the outer except clause displays
\* it and the empty output is joined and returned
LocalSpawnFails ==
    /\ epc = "idle"
    /\ \E pr \in {NoTable, SomeTable(<<>>)}, py3 \in BOOLEAN :
          LET t == LocalTable(pr, FALSE) IN
          /\ prArg' = IF pr.none THEN pr ELSE SomeTable(t)
          /\ table' = t
          /\ patterns' = Keys(t)
          /\ engArgs' = [pr |-> pr, accept_defaults |-> FALSE,
                         hasPassword |-> FALSE, py3 |-> py3]
    /\ engine' = "local"
    /\ epc' = "done"
    /\ engResult' = Concat(output)
    /\ UNCHANGED <<sess, pending, buffer, output, sent, lastMatch, engRaised,
                   matched, argVars, wdVars, procVars, sessVars, utilVars>>

\* RemoteShell.run_pattern_response up to its first expect(), on a session
\* that is quiet: the table is a copy, the prompt is put last in the list,
\* prompt(timeout=0.1) finds nothing and the command line is sent
RemoteEngineStart ==
    /\ epc = "idle"
    /\ \E pr \in CallerTables, accept_defaults \in BOOLEAN, py3 \in BOOLEAN :
          LET t == RemoteTable(pr, accept_defaults) IN
          /\ prArg' = pr
          /\ table' = t
          /\ patterns' = Append(Keys(t), "PROMPT")
          /\ engArgs' = [pr |-> pr, accept_defaults |-> accept_defaults,
                         hasPassword |-> TRUE, py3 |-> py3]
    /\ engine' = "remote"
    /\ epc' = "await"
    /\ sess' = [alive |-> TRUE, emitted |-> 0, timeouts |-> 0]
    /\ sent' = <<"command_line">>
    /\ UNCHANGED <<pending, buffer, output, lastMatch, engResult, engRaised,
                   matched,
                   argVars, wdVars, procVars, sessVars, utilVars>>

\* the child or session writes a piece of output
SessEmit ==
    /\ epc = "await"
    /\ sess.alive
    /\ sess.emitted < MaxEmit
    /\ \E piece \in Pieces :
          /\ (piece = <<"PROMPT">>) => engine = "remote"
          /\ pending' = pending \o piece
    /\ sess' = [sess EXCEPT !.emitted = @ + 1]
    /\ UNCHANGED <<engine, epc, prArg, table, patterns, buffer, output, sent,
                   lastMatch, engResult, engRaised, engArgs, matched,
                   argVars, wdVars, procVars, sessVars, utilVars>>

\* the child exits / the session is closed by the other side
SessExit ==
    /\ epc = "await"
    /\ sess.alive
    /\ sess' = [sess EXCEPT !.alive = FALSE]
    /\ UNCHANGED <<engine, epc, prArg, table, patterns, pending, buffer, output,
                   sent, lastMatch, engResult, engRaised, engArgs, matched,
                   argVars, wdVars, procVars, sessVars, utilVars>>

\* inside expect(): nothing in the buffer matches and output is waiting, so
\* it is read into the buffer
ExpectRead ==
    /\ NothingMatches
    /\ pending # <<>>
    /\ buffer' = buffer \o pending
    /\ pending' = <<>>
    /\ UNCHANGED <<engine, epc, prArg, table, patterns, sess, output, sent,
                   lastMatch, engResult, engRaised, engArgs, matched,
                   argVars, wdVars, procVars, sessVars, utilVars>>

\* local loop body, lines 118-128, when expect() returns for a match of a
\* regular expression: before and after are accumulated, the response of
\* the pattern is looked up and sent if it is truthy
LocalMatch ==
    /\ engine = "local"
    /\ epc = "await"
    /\ LET m == Expect(patterns, buffer)
           before == SubSeq(buffer, 1, m.start - 1)
           after == SubSeq(buffer, m.start, m.start + m.len - 1)
           key == patterns[m.index]
           response == DictGet(table, key)
       IN  /\ m.found
           /\ output' = output \o <<PyStr(before, engArgs.py3), PyStr(after, engArgs.py3)>>
           /\ matched' = Append(matched, [before |-> before, after |-> after])
           /\ buffer' = SubSeq(buffer, m.start + m.len, Len(buffer))
           /\ sent' = Dispatch(response, sent)
           /\ lastMatch' = [n |-> lastMatch.n + 1, what |-> "text", index |-> m.index,
                            key |-> key, resp |-> response, start |-> m.start,
                            len |-> m.len]
    /\ UNCHANGED <<engine, epc, prArg, table, patterns, sess, pending, engResult,
                   engRaised, engArgs,
                   argVars, wdVars, procVars, sessVars, utilVars>>

\* local loop body when expect() returns the index of pexpect.TIMEOUT: the
\* child is silent for 120 s. before is the whole buffer, which stays in
\* place; after is the class pexpect.TIMEOUT, which is truthy, so str() of it
\* is accumulated
LocalTimeout ==
    /\ engine = "local"
    /\ NothingMatches
    /\ pending = <<>>
    /\ sess.alive
    /\ sess.timeouts < MaxTimeouts
    /\ LET index == IndexOf(patterns, "TIMEOUT")
           response == DictGet(table, "TIMEOUT")
       IN  /\ output' = output \o <<PyStr(buffer, engArgs.py3), <<"<class TIMEOUT>">>>>
           /\ matched' = Append(matched, [before |-> buffer, after |-> <<>>])
           /\ sent' = Dispatch(response, sent)
           /\ lastMatch' = [n |-> lastMatch.n + 1, what |-> "timeout", index |-> index,
                            key |-> "TIMEOUT", resp |-> response, start |-> 0,
                            len |-> 0]
    /\ sess' = [sess EXCEPT !.timeouts = @ + 1]
    /\ UNCHANGED <<engine, epc, prArg, table, patterns, pending, buffer, engResult,
                   engRaised, engArgs,
                   argVars, wdVars, procVars, sessVars, utilVars>>

\* lines 129-133: expect() raises pexpect.EOF, the loop is left and the
\* fragments are joined
LocalEOF ==
    /\ engine = "local"
    /\ NothingMatches
    /\ pending = <<>>
    /\ ~sess.alive
    /\ epc' = "done"
    /\ engResult' = Concat(output)
    /\ UNCHANGED <<engine, prArg, table, patterns, sess, pending, buffer, output,
                   sent, lastMatch, engRaised, engArgs, matched,
                   argVars, wdVars, procVars, sessVars, utilVars>>

\* remote loop body, lines 161-173, when expect() returns for a match of a
\* regular expression: before and after are reported; the prompt ends the
\* loop, any other pattern has its response looked up and sent if truthy
RemoteMatch ==
    /\ engine = "remote"
    /\ epc = "await"
    /\ LET m == Expect(patterns, buffer)
           before == SubSeq(buffer, 1, m.start - 1)
           after == SubSeq(buffer, m.start, m.start + m.len - 1)
           key == patterns[m.index]
           isPrompt == m.index = IndexOf(patterns, "PROMPT")
           response == IF isPrompt THEN RNone ELSE DictGet(table, key)
       IN  /\ m.found
           /\ output' = Report(output, before, after, engArgs.py3)
           /\ matched' = Append(matched, [before |-> before, after |-> after])
           /\ buffer' = SubSeq(buffer, m.start + m.len, Len(buffer))
           /\ epc' = IF isPrompt THEN "final" ELSE "await"
           /\ sent' = IF isPrompt THEN sent ELSE Dispatch(response, sent)
           /\ lastMatch' = [n |-> lastMatch.n + 1, what |-> "text", index |-> m.index,
                            key |-> key, resp |-> response, start |-> m.start,
                            len |-> m.len]
    /\ UNCHANGED <<engine, prArg, table, patterns, sess, pending, engResult,
                   engRaised, engArgs,
                   argVars, wdVars, procVars, sessVars, utilVars>>

\* remote loop body when expect() returns the index of pexpect.TIMEOUT:
\* lines 162-163, a message is printed and nothing else happens
RemoteTimeout ==
    /\ engine = "remote"
    /\ NothingMatches
    /\ pending = <<>>
    /\ sess.alive
    /\ sess.timeouts < MaxTimeouts
    /\ lastMatch' = [n |-> lastMatch.n + 1, what |-> "timeout",
                     index |-> IndexOf(patterns, "TIMEOUT"), key |-> "TIMEOUT",
                     resp |-> DictGet(table, "TIMEOUT"), start |-> 0, len |-> 0]
    /\ sess' = [sess EXCEPT !.timeouts = @ + 1]
    /\ matched' = Append(matched, [before |-> buffer, after |-> <<>>])
    /\ UNCHANGED <<engine, epc, prArg, table, patterns, pending, buffer, output,
                   sent, engResult, engRaised, engArgs,
                   argVars, wdVars, procVars, sessVars, utilVars>>

\* lines 174-176: expect() raises pexpect.EOF; before is the buffer, after
\* is the class pexpect.EOF, no string, so only before is reported
RemoteEOF ==
    /\ engine = "remote"
    /\ NothingMatches
    /\ pending = <<>>
    /\ ~sess.alive
    /\ output' = Report(output, buffer, <<>>, engArgs.py3)
    /\ buffer' = <<>>
    /\ epc' = "final"
    /\ UNCHANGED <<engine, prArg, table, patterns, sess, pending, sent, lastMatch,
                   engResult, engRaised, engArgs, matched,
                   argVars, wdVars, procVars, sessVars, utilVars>>

\* lines 177-179: prompt(timeout=0.1) is expect([PROMPT, TIMEOUT]) on what
\* the session still holds. A prompt is matched, or the wait times out with
\* before the whole buffer, or the session is closed and pexpect.EOF leaves
\* the method. Otherwise the report is made and the joined output is split
\* into lines.
RemoteFinish ==
    /\ engine = "remote"
    /\ epc = "final"
    /\ LET all == buffer \o pending
           m == Expect(<<"PROMPT">>, all)
           before == IF m.found THEN SubSeq(all, 1, m.start - 1) ELSE all
           after == IF m.found THEN <<"PROMPT">> ELSE <<>>
           eof == ~m.found /\ ~sess.alive
       IN  /\ pending' = <<>>
           /\ buffer' = IF m.found THEN SubSeq(all, m.start + 1, Len(all)) ELSE all
           /\ engRaised' = eof
           /\ output' = IF eof THEN output
                        ELSE Report(output, before, after, engArgs.py3)
           /\ engResult' = IF eof THEN <<>>
                           ELSE SplitLines(Concat(Report(output, before, after,
                                                         engArgs.py3)), <<>>)
    /\ epc' = "done"
    /\ UNCHANGED <<engine, prArg, table, patterns, sess, sent, lastMatch,
                   engArgs, matched,
                   argVars, wdVars, procVars, sessVars, utilVars>>

\* the caller takes the result; the next call starts from a fresh state
EngineReturn ==
    /\ epc = "done"
    /\ engine' = "local"
    /\ epc' = "idle"
    /\ prArg' = NoTable
    /\ table' = <<>>
    /\ patterns' = <<>>
    /\ sess' = [alive |-> FALSE, emitted |-> 0, timeouts |-> 0]
    /\ pending' = <<>>
    /\ buffer' = <<>>
    /\ output' = <<>>
    /\ sent' = <<>>
    /\ lastMatch' = NoMatch
    /\ engResult' = <<>>
    /\ engRaised' = FALSE
    /\ engArgs' = NoCall
    /\ matched' = <<>>
    /\ UNCHANGED <<argVars, wdVars, procVars, sessVars, utilVars>>

NextEngine ==
    \/ LocalEngineStart
    \/ LocalSpawnFails
    \/ RemoteEngineStart
    \/ SessEmit
    \/ SessExit
    \/ ExpectRead
    \/ LocalMatch
    \/ LocalTimeout
    \/ LocalEOF
    \/ RemoteMatch
    \/ RemoteTimeout
    \/ RemoteEOF
    \/ RemoteFinish
    \/ EngineReturn

SpecEngine == InitEngine /\ [][NextEngine]_vars

\* ------------------------------------------------------ SpecProc: claims
\* C4: when run_process is called with timeout > 0 and the child is still
\* alive once the timeout has elapsed, the child is killed: a loop iteration
\* that finds the child alive after the timeout has elapsed goes on only
\* with the child killed.
C4_TimeoutKillsChild ==
    [][(pc = "check" /\ pc' = "read" /\ runTimeout > 0 /\ now >= runTimeout)
          => child'.killed]_vars

C6_OutputComplete ==
    (pc = "done" /\ spawn = "ok" /\ Decode(written).ok) =>
        result = Decode(written).text

\* C7: a child that cannot be started is reported with the attempted
\* arguments, nothing is yielded, run returns the empty string and no
\* exception reaches the caller.
C7_SpawnFailureReported ==
    (pc = "done" /\ spawn = "OSError") =>
        /\ ~raised
        /\ errorLog = <<procArgs>>
        /\ lines = <<>>
        /\ result = <<>>

\* run has returned after Popen raised OSError
C7_Witness ==
    pc = "done" /\ spawn = "OSError" /\ errorLog # <<>>

\* ---------------------------------------------------- SpecEngine: claims
\* the step is a return of expect() for a match of a regular expression
TextMatchStep == lastMatch'.n # lastMatch.n /\ lastMatch'.what = "text"

\* the indexes of the patterns that match the buffer at position i
MatchingAt(i) == {k \in 1..Len(patterns) : MatchLen(patterns[k], buffer, i) > 0}

\* the positions of the buffer where some pattern matches
MatchStarts == {i \in 1..Len(buffer) : MatchingAt(i) # {}}

\* what is sent once the pattern with index k has matched
SentAfter(k) ==
    IF patterns[k] = "PROMPT" THEN sent
    ELSE LET response == DictGet(table, patterns[k])
         IN  IF RTruthy(response) THEN Append(sent, response.s) ELSE sent

\* the prompt sudo writes starts at position i of the buffer
SudoPromptAt(i) ==
    /\ i + 3 <= Len(buffer)
    /\ SubSeq(buffer, i, i + 3) = <<"[sudo]", " ", "password for u:", " ">>

\* the table is the default table of the engine: no caller entries
DefaultTable ==
    \/ engine = "local" /\ prArg.none
    \/ engine = "remote" /\ ~TruthyTable(prArg) /\ "GENERIC_R" \in {patterns[k] : k \in 1..Len(patterns)}

\* the table holds a pattern for the sudo password prompt
HoldsPasswordPattern ==
    \E k \in 1..Len(patterns) : patterns[k] \in {"SUDO_L", "SUDO_R"}

\* the match consumes (as before or after) text of a sudo prompt of the
\* buffer, and it is the password pattern that matched inside that prompt
\* and the password that is sent
SudoAnswered ==
    \A i \in 1..Len(buffer) :
        (SudoPromptAt(i) /\ i <= lastMatch'.start + lastMatch'.len - 1)
            => /\ lastMatch'.key \in {"SUDO_L", "SUDO_R"}
               /\ i <= lastMatch'.start
               /\ lastMatch'.start + lastMatch'.len - 1 <= i + 3
               /\ sent' = Append(sent, "<password><CR>")

C10_NullResponseIsSilent ==
    [][(lastMatch'.n # lastMatch.n /\ lastMatch'.what # "none"
          /\ lastMatch'.key # "PROMPT")
        => /\ lastMatch'.key = "MOVEMENT" => lastMatch'.resp.none
           /\ lastMatch'.resp.none => (sent' = sent /\ epc' = "await")]_vars

\* a line end has matched the movement pattern in a table where the caller
\* had given the movement pattern a response, and the engine waits again
C10_Witness ==
    /\ lastMatch.what = "text"
    /\ lastMatch.key = "MOVEMENT"
    /\ lastMatch.index = 1
    /\ lastMatch.resp.none
    /\ epc = "await"
    /\ engine = "local"
    /\ sent = <<>>

\* the step is a return of expect() for a pattern of the table: a regular
\* expression or the timeout sentinel, not the prompt of the session
TableMatchStep ==
    /\ lastMatch'.n # lastMatch.n
    /\ lastMatch'.what # "none"
    /\ lastMatch'.key # "PROMPT"

\* C11: for every match of a pattern whose response is not None (any string,
\* the empty string included) the engine sends that response, once, as a
\* line, before it waits for the next match.
C11_NonNullResponseSent ==
    [][(TableMatchStep /\ ~lastMatch'.resp.none)
          => sent' = Append(sent, lastMatch'.resp.s)]_vars

\* the sequence ends with the given tail
EndsWith(seq, tail) ==
    /\ Len(seq) >= Len(tail)
    /\ SubSeq(seq, Len(seq) - Len(tail) + 1, Len(seq)) = tail

\* C12: whatever mapping the caller passes, one that holds the movement
\* pattern or the timeout sentinel as a key included, the pattern list of
\* the engine ends with the movement pattern and then the timeout sentinel
\* (followed, in the remote engine, by the prompt only).
C12_SentinelsLast ==
    (epc # "idle" /\ ~engArgs.pr.none)
        => EndsWith(patterns, IF engine = "remote"
                              THEN <<"MOVEMENT", "TIMEOUT", "PROMPT">>
                              ELSE <<"MOVEMENT", "TIMEOUT">>)

\* the entries of a table other than the two sentinels
PatternEntries(t) ==
    {t[i] : i \in {j \in 1..Len(t) : t[j].key \notin {"MOVEMENT", "TIMEOUT"}}}

\* the entries of the default table of the engine that runs
DefaultEntries ==
    IF engine = "local"
    THEN {[key |-> "GENERIC_L", resp |-> RStr("<CR>")]}
         \cup (IF engArgs.hasPassword
               THEN {[key |-> "SUDO_L", resp |-> RStr("<password><CR>")]} ELSE {})
    ELSE {[key |-> "GENERIC_R", resp |-> RStr("<CR>")],
          [key |-> "SUDO_R", resp |-> RStr("<password><CR>")]}

\* the engine was called the way run() calls it: with the caller's entries,
\* or with no mapping because accept_defaults is set
CalledAsByRun ==
    \/ TruthyTable(engArgs.pr)
    \/ engArgs.pr.none /\ (engine = "local" \/ engArgs.accept_defaults)

\* C13: the table of the engine holds the caller's entries when any are
\* given and the default entries otherwise (the password pattern only with
\* credentials); default entries are never added to a caller's table.
C13_TableConstruction ==
    (epc # "idle" /\ CalledAsByRun)
        => PatternEntries(table) = IF TruthyTable(engArgs.pr)
                                   THEN PatternEntries(engArgs.pr.v)
                                   ELSE DefaultEntries

\* the before text and the matched text of the returns of expect(), in order
RECURSIVE MatchedText(_)
MatchedText(ms) ==
    IF ms = <<>> THEN <<>>
    ELSE Head(ms).before \o Head(ms).after \o MatchedText(Tail(ms))

\* C14: what LocalShell.run_pattern_response returns is the concatenation,
\* in match order, of the before text and the matched text of every match
\* that occurred before the end of the stream.
C14_LocalResultIsMatchedText ==
    (engine = "local" /\ epc = "done") => engResult = MatchedText(matched)

\* C15: a failure of the interactive session is soft in both engines: the
\* exception of the spawn/expect/send primitive is caught, the loop ends and
\* the call returns; no exception reaches the caller.
C15_SessionFailureIsSoft == (epc = "done") => ~engRaised

\* -------------------------------------------------- SpecWatchdog: claims
\* C16: a Watchdog constructed with timeout 0 is disabled: start() and
\* reset() make no timer, the handle stays empty, and whatever is called and
\* however much time passes the handler is not invoked.
C16_ZeroTimeoutDisabled ==
    (wd.timeout = 0) => (timers = <<>> /\ wd.timer = 0 /\ handlerCalls = 0)

\* a Watchdog(0) on which start() or stop() and then reset() were called,
\* after time has passed
C16_Witness ==
    /\ wd.timeout = 0
    /\ wdTouched
    /\ ~wdUse.onlyReset
    /\ wdUse.op = "reset"
    /\ now > 0

\* a cancelled Timer stays as it is: it never runs its function
CancelledStaysCancelled ==
    \A i \in 1..Len(timers) :
        timers[i].state = "cancelled" => timers'[i] = timers[i]

\* C17: stop() cancels the timer of the handle, so the handler does not fire
\* for that arming, and clears the handle; stop() on a stopped watchdog
\* changes nothing and raises nothing.
C17_StopCancelsAndClears ==
    /\ [][(wdUse'.op = "stop")
            => /\ wd'.timer = 0
               /\ wd.timer # 0 => timers'[wd.timer].state = "cancelled"
               /\ wd.timer = 0 => (wd' = wd /\ timers' = timers)
               /\ handlerCalls' = handlerCalls]_vars
    /\ [][CancelledStaysCancelled]_vars
    /\ [](LET s == WatchdogStop(wd, timers)
          IN  WatchdogStop(s.wd, s.timers) = s)

\* stop() was called before the deadline of the arming, the deadline has
\* passed since, and the handler has not been invoked
C17_Witness ==
    /\ wd.timeout > 0
    /\ wd.timer = 0
    /\ wdUse.op = "tick"
    /\ ~wdUse.late
    /\ now >= wdUse.armedAt + wd.timeout
    /\ \E i \in 1..Len(timers) : timers[i].state = "cancelled"
    /\ handlerCalls = 0

\* C18: reset() is stop() followed by start(): when it has returned the
\* timer made before it is cancelled and a new one is in the handle; and as
\* long as the caller only calls reset(), each time before the deadline, no
\* other timer than the handle's is left to fire and the handler is not
\* invoked.
C18_ResetRestarts ==
    /\ [][(wdUse'.op = "reset")
            => /\ wd.timer # 0 => timers'[wd.timer].state = "cancelled"
               /\ LET s == WatchdogStop(wd, timers)
                      n == WatchdogStart(s.wd, s.timers)
                  IN  wd' = n.wd /\ timers' = n.timers
               /\ wd.timeout > 0 => (wd'.timer = Len(timers) + 1 /\ wd'.timer = Len(timers'))]_vars
    /\ [](wdUse.onlyReset
            => \A i \in 1..Len(timers) : i # wd.timer => timers[i].state = "cancelled")
    /\ []((wdUse.onlyReset /\ ~wdUse.late) => handlerCalls = 0)

\* reset() was called before the deadline, and nothing but reset(); the
\* deadline of the first arming has passed and the handler was not invoked
C18_Witness ==
    /\ wd.timeout > 0
    /\ wdTouched
    /\ wdUse.onlyReset
    /\ ~wdUse.late
    /\ Len(timers) >= 2
    /\ now >= wd.timeout
    /\ handlerCalls = 0

\* the Timer objects made for the watchdog that were neither cancelled nor
\* have run their function
Outstanding == {i \in 1..Len(timers) : timers[i].state \in {"initial", "started"}}

\* C19: whatever construction, start(), stop() and reset() calls were made
\* (start() on an armed watchdog included), the watchdog has at most one
\* outstanding timer, and it is the one its handle names.
C19_AtMostOneTimer ==
    /\ Cardinality(Outstanding) <= 1
    /\ Outstanding \subseteq {wd.timer}

\* ------------------------------------------------------------ SpecSession
\* pxssh.logout() on the session of a shell: an open session is told to
\* exit and is closed; on a session that is closed already the send fails
PxsshLogout(sh) ==
    IF sh.open
    THEN [sh EXCEPT !.open = FALSE, !.closes = @ + 1]
    ELSE [sh EXCEPT !.raised = TRUE]

\* a plausible slip: logout() that closes the session and keeps the handle
RemoteLogoutKeepsHandle(sh) ==
    IF sh.ssh # "None" THEN PxsshLogout(sh) ELSE sh

\* RemoteShell.logout: `if self.ssh: self.ssh.logout(); self.ssh = None`; an
\* exception of ssh.logout() leaves the handle as it is
RemoteLogout(sh) ==
    IF sh.ssh # "None"
    THEN LET t == PxsshLogout(sh)
         IN  IF t.raised THEN t ELSE [t EXCEPT !.ssh = "None"]
    ELSE sh

\* shell.logout() by the class of the shell: AShell.logout, which LocalShell
\* inherits, does nothing
Logout(id, sh) ==
    LET t == IF id = "remote" THEN RemoteLogout(sh) ELSE sh
    IN  [t EXCEPT !.calls = @ + 1]

InitSession ==
    /\ SessionIdle
    /\ UtilIdle
    /\ ArgsIdle
    /\ WatchdogIdle
    /\ ProcIdle
    /\ EngineIdle

\* `with shell as s:` is entered: __enter__ returns self
ShellEnter ==
    \E id \in ShellIds :
        /\ shells[id].ctx = "out"
        /\ shells' = [shells EXCEPT ![id].ctx = "in"]
        /\ UNCHANGED <<argVars, wdVars, procVars, engVars, utilVars>>

\* the with block is left: __exit__ calls self.logout()
ShellExit ==
    \E id \in ShellIds :
        /\ shells[id].ctx = "in"
        /\ shells' = [shells EXCEPT ![id] = [Logout(id, shells[id]) EXCEPT !.ctx = "exited"]]
        /\ UNCHANGED <<argVars, wdVars, procVars, engVars, utilVars>>

\* the caller calls logout() itself, inside or outside a with block
ShellLogout ==
    \E id \in ShellIds :
        /\ shells[id].calls < MaxLogouts
        /\ shells' = [shells EXCEPT ![id] = Logout(id, shells[id])]
        /\ UNCHANGED <<argVars, wdVars, procVars, engVars, utilVars>>

NextSession ==
    \/ ShellEnter
    \/ ShellExit
    \/ ShellLogout

SpecSession == InitSession /\ [][NextSession]_vars

\* C20: RemoteShell.logout() closes the session and clears the handle, and
\* any number of logout() calls in a row, the one of __exit__ after an
\* explicit one included, closes the session once and raises nothing.
C20_LogoutIdempotent ==
    LET sh == shells["remote"]
    IN  /\ ~sh.raised
        /\ sh.closes <= 1
        /\ sh.calls >= 1 => (sh.ssh = "None" /\ ~sh.open /\ sh.closes = 1)
        /\ RemoteLogout(RemoteLogout(sh)) = RemoteLogout(sh)

\* the remote shell was logged out twice by hand and once more by __exit__
C20_Witness ==
    /\ shells["remote"].ctx = "exited"
    /\ shells["remote"].calls >= 3
    /\ shells["remote"].closes = 1
    /\ shells["remote"].ssh = "None"

\* ====================================================== SpecTransfer
\* RemoteShell.put and RemoteShell.get, remote_shell.py lines 247-311. Both
\* open a second connection (taken to succeed) and move files over it.

\* most names in the listing that get() walks through
MaxNames == 2

\* the names a remote listing line can hold; the empty string is the line
\* after a trailing newline
RemoteNames == {"a", "b", ""}

\* sequences over S of length 1..n: str.split('\n') never returns an empty list
NonEmptySeqs(S, n) == UNION {[1..k -> S] : k \in 1..n}

\* str(ex) of the exception of the second attempt
ErrorText == <<"scp: failed">>

\* repr(names), line 309
ReprNames(names) == <<"repr">> \o names

InitTransfer ==
    /\ XferIdle
    /\ EnvIdle /\ BackupIdle /\ TemplateIdle /\ SplitIdle
    /\ EngineIdle
    /\ SessionIdle
    /\ ArgsIdle
    /\ WatchdogIdle
    /\ ProcIdle

\* put() up to the first scp.put: lines 257-265. Whether the transfer with
\* the quoted path and the one with the plain path fail is the remote side's
\* affair
PutStart ==
    /\ xfer.pc = "idle"
    /\ \E f1 \in BOOLEAN, f2 \in BOOLEAN :
          xfer' = [xfer EXCEPT !.op = "put", !.pc = "first",
                               !.firstFails = f1, !.secondFails = f2]
    /\ UNCHANGED <<coreVars, penv, bk, tdir, sp>>

\* lines 268-272: the first attempt, with the remote path in double quotes;
\* scp.put returns None, which `or ''` turns into the empty string; any
\* Exception is swallowed
PutQuoted ==
    /\ xfer.op = "put"
    /\ xfer.pc = "first"
    /\ xfer' = [xfer EXCEPT !.attempts = Append(@, "quoted"),
                            !.out = <<>>,
                            !.pc = IF xfer.firstFails THEN "second" ELSE "done"]
    /\ UNCHANGED <<coreVars, penv, bk, tdir, sp>>

\* lines 273-276: the second attempt, with the path as given; its exception
\* becomes the output
PutUnquoted ==
    /\ xfer.op = "put"
    /\ xfer.pc = "second"
    /\ xfer' = [xfer EXCEPT !.attempts = Append(@, "unquoted"),
                            !.out = IF xfer.secondFails THEN ErrorText ELSE <<>>,
                            !.pc = "done"]
    /\ UNCHANGED <<coreVars, penv, bk, tdir, sp>>

\* get() up to the loop: lines 290-304. names is the output of `ls -1`
\* split at newlines; remote is the set of names sftp can open
GetStart ==
    /\ xfer.pc = "idle"
    /\ \E names \in NonEmptySeqs(RemoteNames, MaxNames),
          remote \in SUBSET (RemoteNames \ {""}) :
          xfer' = [xfer EXCEPT !.op = "get", !.pc = "loop", !.names = names,
                               !.remote = remote, !.idx = 1]
    /\ UNCHANGED <<coreVars, penv, bk, tdir, sp>>

\* lines 305-307: ftp.get(name, local_path) for the next name. No handler
\* surrounds it: the IOError of a name that cannot be opened leaves get()
GetNext ==
    /\ xfer.op = "get"
    /\ xfer.pc = "loop"
    /\ xfer.idx <= Len(xfer.names)
    /\ LET name == xfer.names[xfer.idx] IN
          xfer' = IF name \in xfer.remote
                  THEN [xfer EXCEPT !.attempts = Append(@, name), !.idx = @ + 1]
                  ELSE [xfer EXCEPT !.attempts = Append(@, name), !.raised = TRUE,
                                    !.pc = "done"]
    /\ UNCHANGED <<coreVars, penv, bk, tdir, sp>>

\* lines 309-311: every name was fetched; the output is repr(names)
GetFinish ==
    /\ xfer.op = "get"
    /\ xfer.pc = "loop"
    /\ xfer.idx > Len(xfer.names)
    /\ xfer' = [xfer EXCEPT !.out = ReprNames(xfer.names), !.pc = "done"]
    /\ UNCHANGED <<coreVars, penv, bk, tdir, sp>>

\* the caller has the output or the exception; the next call starts afresh
TransferReturn ==
    /\ xfer.pc = "done"
    /\ xfer' = [op |-> "none", pc |-> "idle", remote |-> {}, firstFails |-> FALSE,
                secondFails |-> FALSE, attempts |-> <<>>, names |-> <<>>, idx |-> 0,
                out |-> <<>>, raised |-> FALSE]
    /\ UNCHANGED <<coreVars, penv, bk, tdir, sp>>

NextTransfer ==
    \/ PutStart
    \/ PutQuoted
    \/ PutUnquoted
    \/ GetStart
    \/ GetNext
    \/ GetFinish
    \/ TransferReturn

SpecTransfer == InitTransfer /\ [][NextTransfer]_vars

\* C21: a failing remote file transfer never raises to the caller: put makes
\* at most two attempts, the first with the remote path quoted and the
\* second without, and returns the text of the second failure as its
\* output; get returns text as well and lets no transfer failure through.
C21_TransferFailureIsSoft ==
    /\ ~xfer.raised
    /\ (xfer.op = "put" /\ xfer.pc = "done") =>
          /\ xfer.attempts \in {<<"quoted">>, <<"quoted", "unquoted">>}
          /\ (xfer.firstFails /\ xfer.secondFails) => xfer.out = ErrorText

\* =========================================================== SpecEnv
\* The environment of the child of LocalShell.run: local_shell.py lines
\* 150-201 (the routing), 257-269 (run_process) and 115 (pexpect.spawn).

\* the variables an environment can hold and their values
EnvKeys == {"PATH", "LANG"}
EnvValues == {"x", "y"}

\* every dict with keys from K and values from V
Dicts(K, V) == UNION {[S -> V] : S \in SUBSET K}

\* env=None, and env given as a dict
NoEnv == [none |-> TRUE, v |-> EmptyDict]
SomeEnv(e) == [none |-> FALSE, v |-> e]

\* `if env:` is false for None and for the empty dict
TruthyEnv(env) == ~env.none /\ DOMAIN env.v # {}

\* lines 257-261: sub_env = os.environ.copy(), then every entry of env is
\* stored in the copy
SubEnv(environ, env) ==
    IF TruthyEnv(env)
    THEN [k \in DOMAIN environ \cup DOMAIN env.v |->
             IF k \in DOMAIN env.v THEN env.v[k] ELSE environ[k]]
    ELSE environ

InitEnv ==
    /\ \E environ \in Dicts(EnvKeys, EnvValues) :
          penv = [pc |-> "idle", environ |-> environ, before |-> EmptyDict,
                  env |-> NoEnv, path |-> "none", childEnv |-> EmptyDict]
    /\ XferIdle /\ BackupIdle /\ TemplateIdle /\ SplitIdle
    /\ EngineIdle
    /\ SessionIdle
    /\ ArgsIdle
    /\ WatchdogIdle
    /\ ProcIdle

\* run(cmd_args, env=env) with neither a truthy pattern_response nor
\* accept_defaults: lines 196-201 pass env to run_generator, which passes it
\* to run_process; Popen gets env=sub_env (line 269)
EnvRunProcess ==
    /\ penv.pc = "idle"
    /\ \E env \in {NoEnv} \cup {SomeEnv(e) : e \in Dicts(EnvKeys, EnvValues)} :
          penv' = [penv EXCEPT !.pc = "spawned", !.before = penv.environ,
                               !.env = env, !.path = "process",
                               !.childEnv = SubEnv(penv.environ, env)]
    /\ UNCHANGED <<coreVars, xfer, bk, tdir, sp>>

\* run(cmd_args, env=env, pattern_response=..) or (.., accept_defaults=True):
\* lines 188-195 call run_pattern_response without env, and line 115,
\* pexpect.spawn(command_line), passes no env: the child inherits os.environ
EnvRunEngine ==
    /\ penv.pc = "idle"
    /\ \E env \in {NoEnv} \cup {SomeEnv(e) : e \in Dicts(EnvKeys, EnvValues)},
          path \in {"pattern_response", "accept_defaults"} :
          penv' = [penv EXCEPT !.pc = "spawned", !.before = penv.environ,
                               !.env = env, !.path = path,
                               !.childEnv = penv.environ]
    /\ UNCHANGED <<coreVars, xfer, bk, tdir, sp>>

\* run returns; os.environ is what the next call inherits
EnvReturn ==
    /\ penv.pc = "spawned"
    /\ penv' = [penv EXCEPT !.pc = "idle", !.before = EmptyDict, !.env = NoEnv,
                            !.path = "none", !.childEnv = EmptyDict]
    /\ UNCHANGED <<coreVars, xfer, bk, tdir, sp>>

NextEnv ==
    \/ EnvRunProcess
    \/ EnvRunEngine
    \/ EnvReturn

SpecEnv == InitEnv /\ [][NextEnv]_vars

\* C22: the environment given to the local child is the inherited
\* environment with every entry of the caller's env overriding the inherited
\* value of its key and every other inherited entry kept; os.environ itself
\* is what it was before the run call.
C22_EnvOverlay ==
    (penv.pc = "spawned") =>
        /\ penv.environ = penv.before
        /\ DOMAIN penv.childEnv = DOMAIN penv.before \cup DOMAIN penv.env.v
        /\ \A k \in DOMAIN penv.childEnv :
              penv.childEnv[k] = IF k \in DOMAIN penv.env.v THEN penv.env.v[k]
                                 ELSE penv.before[k]

\* ======================================================== SpecBackup
\* backup.py: backup_filename and next_backup_filename. A string is the
\* sequence of its characters.

\* longest base name tried, in characters
MaxNameLen == 2

\* most entries of the directory listing handed in
MaxFiles == 2

\* the characters of a base name: a letter, the dot and the tilde
NameChars == {"f", ".", "~"}

\* the decimal digits, in order
Digits == <<"0", "1", "2", "3", "4", "5", "6", "7", "8", "9">>

IsDigit(c) == \E i \in 1..10 : Digits[i] = c

DigitVal(c) == (CHOOSE i \in 1..10 : Digits[i] = c) - 1

\* int(s) for a string of digits
RECURSIVE StrToInt(_)
StrToInt(s) ==
    IF s = <<>> THEN 0
    ELSE 10 * StrToInt(SubSeq(s, 1, Len(s) - 1)) + DigitVal(s[Len(s)])

\* '{index}'.format(index=n) for n >= 0
RECURSIVE IntToStr(_)
IntToStr(n) ==
    IF n < 10 THEN <<Digits[n + 1]>>
    ELSE IntToStr(n \div 10) \o <<Digits[(n % 10) + 1]>>

\* str.endswith('~')
EndsWithTilde(name) == Len(name) > 0 /\ name[Len(name)] = "~"

\* the position of the last '/' of a path, 0 when it has none
LastSlash(path) ==
    IF \E i \in 1..Len(path) : path[i] = "/"
    THEN CHOOSE i \in 1..Len(path) :
            path[i] = "/" /\ \A j \in (i + 1)..Len(path) : path[j] # "/"
    ELSE 0

\* os.path.basename
Basename(path) == SubSeq(path, LastSlash(path) + 1, Len(path))

\* backup.py lines 10-22
BackupFilename(name) == IF EndsWithTilde(name) THEN name ELSE Append(name, "~")

\* the characters the digits \d+ take from position `from` on: the longest
\* run of digits
DigitRun(s, from) ==
    IF from > Len(s) \/ ~IsDigit(s[from]) THEN 0
    ELSE CHOOSE n \in 1..(Len(s) - from + 1) :
            /\ \A i \in from..(from + n - 1) : IsDigit(s[i])
            /\ (from + n <= Len(s)) => ~IsDigit(s[from + n])

\* re.match(r'{name}(\d+)~'.format(name=base), file_name), line 43: the
\* base name is put into the expression as it is, so a dot in it stands for
\* any character; the match is anchored at the start of file_name only.
\* The value is the matched index, or -1 without a match
MatchIndex(base, file) ==
    LET n == Len(base)
        run == DigitRun(file, n + 1)
    IN  IF /\ Len(file) >= n
           /\ \A i \in 1..n : base[i] = "." \/ base[i] = file[i]
           /\ run > 0
           /\ n + run + 1 <= Len(file)
           /\ file[n + run + 1] = "~"
        THEN StrToInt(SubSeq(file, n + 1, n + run))
        ELSE -1

\* lines 41-47: the highest index matched in the listing, 0 without one
MaxIndex(base, files) ==
    LET found == {MatchIndex(base, f) : f \in files} \cup {0}
    IN  CHOOSE m \in found : \A i \in found : i <= m

\* next_backup_filename without the index search: always name~
NextBackupFilenameNoIndex(name, files) == BackupFilename(name)

\* backup.py lines 25-49, with files given
NextBackupFilename(name, files) ==
    LET backup_name == BackupFilename(name) IN
    IF Basename(backup_name) \in files
    THEN name \o IntToStr(MaxIndex(Basename(name), files) + 1) \o <<"~">>
    ELSE backup_name

\* base names of 1..MaxNameLen characters
BaseNames == UNION {[1..k -> NameChars] : k \in 1..MaxNameLen}

\* what follows a base name in a directory entry
Suffixes == {<<>>, <<"~">>, <<"1", "~">>, <<"2", "~">>, <<"0", "2", "~">>,
             <<"1", "~", "x">>, <<"1">>}

\* the entries a directory listing is made of
DirEntries == {b \o s : b \in BaseNames, s \in Suffixes}

\* the subsets of D with at most n elements
RECURSIVE SetsUpTo(_, _)
SetsUpTo(D, n) ==
    IF n = 0 THEN {{}}
    ELSE LET smaller == SetsUpTo(D, n - 1)
         IN  smaller \cup {fs \cup {e} : fs \in smaller, e \in D}

\* the listings: sets of at most MaxFiles entries
Listings == SetsUpTo(DirEntries, MaxFiles)

\* the paths asked about: a base name, alone or in a directory
BackupNames == BaseNames \cup {<<"d", "/">> \o b : b \in BaseNames}

InitBackup ==
    /\ \E name \in BackupNames, files \in Listings :
          bk = [pc |-> "idle", name |-> name, files |-> files, result |-> <<>>]
    /\ XferIdle /\ EnvIdle /\ TemplateIdle /\ SplitIdle
    /\ EngineIdle
    /\ SessionIdle
    /\ ArgsIdle
    /\ WatchdogIdle
    /\ ProcIdle

\* next_backup_filename(name, files) is called and returns
NextBackupCall ==
    /\ bk.pc = "idle"
    /\ bk' = [bk EXCEPT !.pc = "done",
                        !.result = NextBackupFilename(bk.name, bk.files)]
    /\ UNCHANGED <<coreVars, xfer, penv, tdir, sp>>

NextBackup == NextBackupCall

SpecBackup == InitBackup /\ [][NextBackup]_vars

\* the directory part of a path, with its '/'
DirPart(path) == SubSeq(path, 1, LastSlash(path))

\* the indices i >= 1 for which name{i}~ is in files, and the highest of
\* them, 0 when there is none
IndexedBackups(base, files) ==
    {i \in 1..99 : (base \o IntToStr(i) \o <<"~">>) \in files}

HighestIndex(base, files) ==
    LET found == IndexedBackups(base, files) \cup {0}
    IN  CHOOSE m \in found : \A i \in found : i <= m

\* C23: next_backup_filename(name, files) returns name~ when name~ is not in
\* files, and otherwise name{k+1}~ with k the highest index i for which
\* name{i}~ is in files (0 when there is none); the name returned is never
\* in files.
C23_NextBackupName ==
    (bk.pc = "done") =>
        LET base == Basename(bk.name)
            tilde == Append(base, "~")
            k == HighestIndex(base, bk.files)
        IN  /\ bk.result = DirPart(bk.name) \o
                  (IF tilde \in bk.files THEN base \o IntToStr(k + 1) \o <<"~">>
                   ELSE tilde)
            /\ Basename(bk.result) \notin bk.files

\* ====================================================== SpecTemplate
\* Template._create_from_template, template.py lines 78-146, called again
\* and again for one destination. The directory of the destination is a
\* dict from entry names to file contents.

\* most renders in one behaviour
MaxRenders == 3

\* what a template renders to
Rendered == {"c0", "c1"}

\* what the temporary file holds when out_file.write failed (line 111)
Truncated == "cut"

\* the content of the files that are in the directory before the first
\* render
Old == "old"

\* how a call can go wrong: template.format raises (line 105), write raises
\* (lines 108-112), shutil.copyfile raises (line 136)
Faults == {"none", "format", "write", "copy"}

\* md5sum(file)[0], md5.py lines 11-28, by the content of the file
Md5(content) == <<"md5", content>>

\* line 120 with the comparison left out: the files never count as equal
SameContentNever(new, old) == FALSE

\* line 120: md5sum(new_filename)[0] == md5sum(dest_filename)[0]
SameContent(new, old) == Md5(new) = Md5(old)

\* os.rename(a, b): b is replaced when it exists
Rename(files, a, b) ==
    [k \in (DOMAIN files \ {a}) \cup {b} |-> IF k = b THEN files[a] ELSE files[k]]

\* shutil.copyfile(new_filename, dest): dest is created or overwritten
CopyTo(files, dest, content) ==
    [k \in DOMAIN files \cup {dest} |-> IF k = dest THEN content ELSE files[k]]

\* os.listdir(os.path.dirname(name)) of backup.py line 36 fails for a
\* destination given without a directory: dirname is '' and listdir('')
\* raises
ListdirRaises(dest) == LastSlash(dest) = 0

\* the content of the temporary file once lines 105-112 are done
WrittenContent(rendered, fault) == IF fault = "write" THEN Truncated ELSE rendered

\* lines 95-146: the directory after the call. Every exception is caught at
\* line 138 and leaves the directory as it is at that point
CreateFromTemplate(files, dest, rendered, fault) ==
    LET base == Basename(dest)
        new == WrittenContent(rendered, fault)
        exists == base \in DOMAIN files
        backup == Basename(NextBackupFilename(dest, DOMAIN files))
    IN  IF fault = "format" THEN files
        ELSE IF exists /\ SameContent(new, files[base]) THEN files
        ELSE IF exists /\ ListdirRaises(dest) THEN files
        ELSE LET moved == IF exists THEN Rename(files, base, backup) ELSE files
             IN  IF fault = "copy" THEN moved ELSE CopyTo(moved, base, new)

\* the destinations rendered to: a file in a directory, the same given
\* without a directory, and a file whose name ends in '~'
Destinations == {<<"d", "/", "f">>, <<"f">>, <<"d", "/", "f", "~">>}

\* the entries the directory can hold before the first render
TemplateEntries == {<<"f">> \o s : s \in Suffixes}

InitTemplate ==
    /\ \E dest \in Destinations, names \in SetsUpTo(TemplateEntries, MaxFiles) :
          LET files == [n \in names |-> Old] IN
          tdir = [dest |-> dest, files |-> files, start |-> files,
                  renders |-> 0, changes |-> 0, written |-> "None"]
    /\ XferIdle /\ EnvIdle /\ BackupIdle /\ SplitIdle
    /\ EngineIdle
    /\ SessionIdle
    /\ ArgsIdle
    /\ WatchdogIdle
    /\ ProcIdle

\* the destination's content differs after the call from the content it
\* had before it
ContentReplaced(before, after, base) ==
    /\ base \in DOMAIN before
    /\ (base \notin DOMAIN after \/ after[base] # before[base])

\* one call of _create_from_template for the destination
Render ==
    /\ tdir.renders < MaxRenders
    /\ \E rendered \in Rendered, fault \in Faults :
          LET after == CreateFromTemplate(tdir.files, tdir.dest, rendered, fault)
              base == Basename(tdir.dest)
          IN  tdir' = [tdir EXCEPT
                         !.files = after,
                         !.renders = @ + 1,
                         !.changes = IF ContentReplaced(tdir.files, after, base)
                                     THEN @ + 1 ELSE @,
                         !.written = IF fault = "format" THEN "None"
                                     ELSE WrittenContent(rendered, fault)]
    /\ UNCHANGED <<coreVars, xfer, penv, bk, sp>>

NextTemplate == Render

SpecTemplate == InitTemplate /\ [][NextTemplate]_vars

\* the backup files of a directory: the entries that end in '~', the
\* destination itself left aside
BackupFiles(files, dest) ==
    {f \in DOMAIN files : EndsWithTilde(f) /\ f # Basename(dest)}

MaxPathLen == 6

\* the characters of a path: the separator and two letters
PathChars == {"/", "a", "b"}

\* the paths tried: every string of at most MaxPathLen characters
Paths == UNION {[1..k -> PathChars] : k \in 0..MaxPathLen}

\* s is made of separators only
AllSlashes(s) == \A i \in 1..Len(s) : s[i] = "/"

\* str.rstrip('/')
RECURSIVE RStripSlash(_)
RStripSlash(s) ==
    IF s # <<>> /\ s[Len(s)] = "/" THEN RStripSlash(SubSeq(s, 1, Len(s) - 1))
    ELSE s

\* posixpath.split: the head is everything up to the last separator, with
\* its trailing separators dropped unless it is made of separators only
PathSplit(p) ==
    LET i == LastSlash(p)
        head == SubSeq(p, 1, i)
        tail == SubSeq(p, i + 1, Len(p))
    IN  [head |-> IF head # <<>> /\ ~AllSlashes(head) THEN RStripSlash(head)
                  ELSE head,
         tail |-> tail]

\* split_all lines 18-28: the loop, all_parts being what was put in front
\* so far
RECURSIVE SplitLoop(_, _)
SplitLoop(path, all_parts) ==
    LET parts == PathSplit(path) IN
    IF parts.head = path THEN <<parts.head>> \o all_parts
    ELSE IF parts.tail = path THEN <<parts.tail>> \o all_parts
    ELSE SplitLoop(parts.head, <<parts.tail>> \o all_parts)

\* lines 30-31 left out: the list as the loop built it
RemoveTrailingEmptyNever(all_parts) == [raised |-> FALSE, parts |-> all_parts]

\* lines 30-31: while not all_parts[-1]: all_parts = all_parts[:-1]. On a
\* list that runs empty all_parts[-1] raises IndexError
RECURSIVE RemoveTrailingEmpty(_)
RemoveTrailingEmpty(all_parts) ==
    IF all_parts = <<>> THEN [raised |-> TRUE, parts |-> <<>>]
    ELSE IF all_parts[Len(all_parts)] = <<>>
         THEN RemoveTrailingEmpty(SubSeq(all_parts, 1, Len(all_parts) - 1))
         ELSE [raised |-> FALSE, parts |-> all_parts]

\* split_all(path)
SplitAll(path) == RemoveTrailingEmpty(SplitLoop(path, <<>>))

\* posixpath.join(a, *p) on the list <<a>> \o p, from the left: a component
\* that starts with a separator replaces what was joined so far
RECURSIVE PathJoin(_)
PathJoin(parts) ==
    IF Len(parts) = 1 THEN parts[1]
    ELSE LET path == PathJoin(SubSeq(parts, 1, Len(parts) - 1))
             b == parts[Len(parts)]
         IN  IF b # <<>> /\ b[1] = "/" THEN b
             ELSE IF path = <<>> \/ path[Len(path)] = "/" THEN path \o b
             ELSE path \o <<"/">> \o b

InitSplit ==
    /\ \E path \in Paths :
          sp = [pc |-> "idle", path |-> path, parts |-> <<>>, joined |-> <<>>,
                raised |-> FALSE]
    /\ XferIdle /\ EnvIdle /\ BackupIdle /\ TemplateIdle
    /\ EngineIdle
    /\ SessionIdle
    /\ ArgsIdle
    /\ WatchdogIdle
    /\ ProcIdle

\* os.path.join(*split_all(path)) is evaluated
SplitAllCall ==
    /\ sp.pc = "idle"
    /\ LET r == SplitAll(sp.path) IN
          sp' = [sp EXCEPT !.pc = "done", !.raised = r.raised, !.parts = r.parts,
                           !.joined = IF r.raised THEN <<>> ELSE PathJoin(r.parts)]
    /\ UNCHANGED <<coreVars, xfer, penv, bk, tdir>>

NextSplit == SplitAllCall

SpecSplit == InitSplit /\ [][NextSplit]_vars

\* the path without the separators at its end
RECURSIVE TrailingRemoved(_)
TrailingRemoved(p) ==
    IF p = <<>> \/ p[Len(p)] # "/" THEN p
    ELSE TrailingRemoved(SubSeq(p, 1, Len(p) - 1))

\* a path of non-empty components: an optional separator in front, one
\* separator between two components, any number of separators at the end
OfNonEmptyComponents(p) ==
    LET s == TrailingRemoved(p) IN
    /\ s # <<>>
    /\ \A i \in 1..(Len(s) - 1) : ~(s[i] = "/" /\ s[i + 1] = "/")

\* the components of a path without trailing separators, left to right
RECURSIVE ComponentsOf(_)
ComponentsOf(s) ==
    IF s = <<>> THEN <<>>
    ELSE LET i == LastSlash(s)
             comp == SubSeq(s, i + 1, Len(s))
         IN  IF i = 0 THEN <<comp>>
             ELSE IF i = 1 THEN <<comp>>
             ELSE Append(ComponentsOf(SubSeq(s, 1, i - 1)), comp)

\* C26: for a path of non-empty components, with or without a leading
\* separator and with any number of trailing separators, split_all returns
\* the components, the root '/' first for an absolute path and no empty
\* element at the end, and os.path.join of them is the path without its
\* trailing separators.
C26_SplitAllRoundTrip ==
    (sp.pc = "done" /\ OfNonEmptyComponents(sp.path)) =>
        LET s == TrailingRemoved(sp.path) IN
        /\ ~sp.raised
        /\ sp.parts = (IF s[1] = "/" THEN <<<<"/">>>> ELSE <<>>) \o ComponentsOf(s)
        /\ sp.joined = s

\* an absolute path of two components with two trailing separators was split
C26_Witness ==
    /\ sp.pc = "done"
    /\ sp.path = <<"/", "a", "/", "b", "/", "/">>
    /\ sp.parts = <<<<"/">>, <<"a">>, <<"b">>>>

\* ------------------------------------------ SpecEngine: further claims
\* C27: a match of the timeout sentinel never ends the loop: the local
\* engine answers it with a carriage return, the remote engine sends
\* nothing. The loop ends exactly when end-of-stream is reached (local) or
\* the prompt is matched (remote), and the call then returns.
C27_LoopEndsAtSentinelOnly ==
    [][/\ (lastMatch'.n # lastMatch.n /\ lastMatch'.what = "timeout") =>
             /\ epc' = "await"
             /\ sent' = IF engine = "local" THEN Append(sent, "<CR>") ELSE sent
       /\ (epc = "await" /\ epc' # "await") =>
             IF engine = "local"
             THEN ~sess.alive /\ pending = <<>> /\ ~Expect(patterns, buffer).found
             ELSE lastMatch'.n # lastMatch.n /\ lastMatch'.key = "PROMPT"
       /\ (epc # "done" /\ epc' = "done") => ~engRaised']_vars

\* C28: neither engine modifies the caller's pattern_response mapping: while
\* the call runs and when it has returned, the object the caller passed
\* holds the keys and values it was passed with.
C28_CallerMappingUnchanged == (epc # "idle") => prArg = engArgs.pr

\* the text a child can write: the tokens of the pieces it emits
ChildTokens == UNION {{piece[i] : i \in 1..Len(piece)} : piece \in Pieces}

\* C29: the string LocalShell.run_pattern_response returns holds only text
\* read from the child; a match of the timeout sentinel adds no text of its
\* own.
C29_ResultOnlyChildText ==
    (engine = "local" /\ epc = "done") =>
        \A i \in 1..Len(engResult) : engResult[i] \in ChildTokens

\* RemoteShell.run line 245 on the engine's return value: ''.join(buf)
RemoteRunResult(buf) == Concat(buf)

\* C30: when RemoteShell.run delegates to the engine, the string it returns
\* is the concatenation of all fragments the engine accumulated, line ends
\* included.
C30_RunKeepsLineEnds ==
    (engine = "remote" /\ epc = "done" /\ ~engRaised /\ CalledAsByRun) =>
        RemoteRunResult(engResult) = Concat(output)

============================================================================
